---- MODULE Spec2Model ----
(***************************************************************************)
(* Model of fileutil.WriteFileAtomicBytes (internal/fileutil): concurrent  *)
(* calls on one destination path p, one step per filesystem call, with     *)
(* every filesystem call allowed to fail; and of toolutil.CloneTool         *)
(* (internal/toolutil), with Go slices as headers over backing arrays; and  *)
(* of the sessionStore of package shelltool, one step per lock operation    *)
(* and per statement under a lock; and of fileutil.ReadImage, one step per  *)
(* filesystem call, on a file another process resizes.                      *)
(***************************************************************************)
EXTENDS Integers, Sequences, FiniteSets, TLC

\* ------------------------------------------------------------------ bounds
NWriters == 2
MaxLen == 1
MaxByte == 2
\* CloneTool: greatest capacity of a slice of the input, greatest element,
\* number of writes and appends after the clone, and the spare capacity an
\* allocation may come with.
MaxCap == 2
MaxElem == 2
MaxOps == 3
Slack == 1
\* sessionStore: number of goroutines that call the store, and number of
\* sessions newSession creates.
NProcs == 2
NIds == 2
\* ReadImage: greatest size of the file in bytes, and greatest maxBytes.
MaxSize == 4
MaxLimit == 2

\* ------------------------------------------------------- program constants
\* os.CreateTemp creates the staging file with mode 0600.
TempPerm == 384
\* mode of the pre-existing destination (0600 in the tests).
OldPerm == 384
\* number of rename attempts of the Windows overwrite loop.
MaxAttempts == 6

Writers == 1 .. NWriters
Bytes == 1 .. MaxByte
\* requested permission bits: 0600 and 0640.
Perms == {384, 416}
\* file mode creation masks of the process: 022 and 077.
Umasks == {18, 63}

\* perm &^ mask, bit by bit: the mode open(2) gives a file it creates.
RECURSIVE AndNot(_, _)
AndNot(perm, mask) ==
  IF perm = 0 THEN 0
  ELSE 2 * AndNot(perm \div 2, mask \div 2)
       + (IF perm % 2 = 1 /\ mask % 2 = 0 THEN 1 ELSE 0)

Run(n, b) == [i \in 1 .. n |-> b]
\* payloads: runs of one byte value, of length 0..MaxLen.
Payloads == {Run(n, b) : n \in 0 .. MaxLen, b \in Bytes}
\* content of the destination before any call (byte 0 is in no payload).
OldData == <<0>>

IsPrefix(s, t) == Len(s) <= Len(t) /\ SubSeq(t, 1, Len(s)) = s

\* inodes: 0 is the file that exists before any call (the destination, or the
\* target of the symlink at the destination); w is the staging file of call w;
\* NWriters + w is the file call w creates with O_EXCL on the copy fallback.
OldIno == 0
TmpIno(w) == w
FbIno(w) == NWriters + w
InoIds == 0 .. (2 * NWriters)

Absent == [kind |-> "absent", ino |-> OldIno]
FileAt(i) == [kind |-> "file", ino |-> i]

VARIABLES
  goos,        \* runtime.GOOS: "linux" or "windows"
  faulty,      \* filesystem calls may fail for reasons other than the state
               \* of the destination (I/O errors, locks, permissions)
  linkOK,      \* the filesystem supports hard links
  parentLink,  \* some component of filepath.Dir(p) is a symbolic link
  dst,         \* directory entry of p: [kind, ino], kind one of "absent",
               \* "file", "dir", "symlink", "dangling", "other"
  tmp,         \* tmp[w]: the staging name of call w exists
  ino,         \* ino[i]: [data, perm, synced] of inode i; synced: the data
               \* has been flushed to the device
  pc,          \* pc[w]: position of call w in WriteFileAtomicBytes
  req,         \* req[w]: arguments of call w: [data, perm, overwrite]
  ret,         \* ret[w]: "none", "ok" (nil) or the error: "InvalidPath",
               \* "SymlinkInParent", "IsDirectory", "NonRegular",
               \* "AlreadyExists", "ShortWrite", "IOError"
  attempt,     \* attempt[w]: loop variable of the Windows overwrite loop
  hist,        \* hist[w]: history of call w (see NoHist)
  lastCommit,  \* the call whose commit primitive succeeded last (0: none)
  heap,        \* the backing arrays of the slices: heap[a][i] is element
               \* i of array a, Len(heap[a]) its capacity
  orig,        \* the spec.Tool given to CloneTool: its slices ArgSchema and
               \* Tags, each a header [nil, arr, len, cap]
  cloned,      \* the spec.Tool CloneTool returned
  held,        \* made: CloneTool has returned; orig, cloned: what each
               \* Tool has to hold (see Value)
  nops,        \* number of writes and appends made after the clone
  m,           \* sessionStore.m: m[id] is the session registered under id
               \* (0: no entry)
  sess,        \* sess[s]: the shellSession s: [id, workdir, env, closed]
  nextId,      \* number of session ids newSessionID has returned
  ssMu,        \* sessionStore.mu: [w, r, a, q], the goroutine that holds
               \* the write lock (0: none), those that hold a read lock,
               \* the goroutine whose Lock waits for the readers to leave
               \* (0: none) and those whose RLock waits for a writer
  sMu,         \* sMu[s]: shellSession.mu of session s, likewise
  spc,         \* spc[p]: position of goroutine p in its store operation
  sop,         \* sop[p]: the operation of goroutine p, its arguments,
               \* locals and result (see NoOp)
  gone,        \* the ids for which a delete(id) has returned
  imgFile,     \* the file ReadImage is called on: [kind, size], kind
               \* "absent", "file", "dir" or "symlink", size in bytes
  img          \* the call of ReadImage: its position pc, its arguments
               \* b64 (includeBase64Data) and maxBytes, size (out.Size),
               \* nread (bytes read from the file), and what it returned:
               \* ret, hasData (an *ImageData, not nil), dataLen (bytes
               \* that Base64Data encodes) and b64Len (len(Base64Data))

toolVars == <<heap, orig, cloned, held, nops>>

fsVars == <<parentLink, dst, tmp, ino, pc, req, ret, attempt, hist, lastCommit>>

storeVars == <<m, sess, nextId, ssMu, sMu, spc, sop, gone>>

vars == <<goos, faulty, linkOK, fsVars, toolVars, storeVars, imgFile, img>>

\* what no statement of WriteFileAtomicBytes changes: the platform, and the
\* values of packages toolutil and shelltool.
env == <<goos, faulty, linkOK, toolVars, storeVars, imgFile, img>>

\* what os.ReadFile(p) and os.Lstat(p) show of the destination.
View(d, in) ==
  [kind |-> d.kind,
   data |-> IF d.kind = "file" THEN in[d.ino].data
            ELSE IF d.kind = "symlink" THEN in[OldIno].data ELSE <<>>]

\* history of a call:
\*   pre       View of the destination when the call was made
\*   preLink   parentLink when the call was made
\*   seq       every earlier call had returned when the call was made
\*   tmpMade   number of staging files this call created
\*   atCommit  "none", or whether the destination was "absent" or "exists"
\*             at the instant of the commit primitive
NoHist == [pre |-> [kind |-> "absent", data |-> <<>>], preLink |-> FALSE,
           seq |-> TRUE, tmpMade |-> 0, atCommit |-> "none"]

NoReq == [data |-> <<>>, perm |-> TempPerm, overwrite |-> FALSE]

\* ------------------------------------------------------------- Go slices
\* the slice fields of spec.Tool.
Fields == {"ArgSchema", "Tags"}
\* the nil slice, and the zero spec.Tool.
NilSlice == [nil |-> TRUE, arr |-> 0, len |-> 0, cap |-> 0]
ZeroTool == [f \in Fields |-> NilSlice]
\* s[0:len(s)]
Elems(s, h) == IF s.nil THEN <<>> ELSE SubSeq(h[s.arr], 1, s.len)
\* what reflect.DeepEqual compares of a slice: nil or not, and the elements.
Value(s, h) == [nil |-> s.nil, elems |-> Elems(s, h)]
ToolValue(t, h) == [f \in Fields |-> Value(t[f], h)]
NoHeld == [made |-> FALSE, orig |-> ToolValue(ZeroTool, <<>>),
           cloned |-> ToolValue(ZeroTool, <<>>)]

\* ------------------------------------------------------- sessionStore
Procs == 1 .. NProcs
Ids == 1 .. NIds

\* the values of shellSession.workdir and of shellSession.env (the keys).
Workdirs == {"", "/w"}
Envs == {{}, {"K"}}

\* a shellSession that has not been allocated.
NoSess == [id |-> 0, workdir |-> "", env |-> {}, closed |-> FALSE]
\* the zero sync.RWMutex.
Unlocked == [w |-> 0, r |-> {}, a |-> 0, q |-> {}]
\* a goroutine that has called nothing: op is the operation, id and s its
\* arguments and locals (0: the unknown id, nil), ok and closed the locals
\* of get, out what the operation returned ("none": it has not returned,
\* "nil": nil or (nil, false), "s": s or (s, true)), late: the get was
\* called after a delete of the same id had returned, or the reset was
\* called while a delete of its session was under way; closed is also the
\* value reset tests at line 70.
NoOp == [op |-> "none", id |-> 0, s |-> 0, ok |-> FALSE, closed |-> FALSE,
         out |-> "none", late |-> FALSE]

\* newSessionStore(), lines 18-20: the map is empty; no goroutine has
\* called the store.
StoreIdle ==
  /\ m = [i \in Ids |-> 0]
  /\ sess = [i \in Ids |-> NoSess]
  /\ nextId = 0
  /\ ssMu = Unlocked
  /\ sMu = [i \in Ids |-> Unlocked]
  /\ spc = [p \in Procs |-> "idle"]
  /\ sop = [p \in Procs |-> NoOp]
  /\ gone = {}

\* ReadImage has not been called; the path names nothing.
ImgIdle ==
  /\ imgFile = [kind |-> "absent", size |-> 0]
  /\ img = [pc |-> "idle", b64 |-> FALSE, maxBytes |-> 0, size |-> 0,
            nread |-> 0, ret |-> "none", hasData |-> FALSE, dataLen |-> 0,
            b64Len |-> 0]

\* no Tool has been built, no session store is in use, and no image is read.
ToolIdle ==
  /\ heap = <<>>
  /\ orig = ZeroTool
  /\ cloned = ZeroTool
  /\ held = NoHeld
  /\ nops = 0
  /\ StoreIdle
  /\ ImgIdle

Init ==
  /\ ToolIdle
  /\ goos \in {"linux", "windows"}
  /\ faulty \in BOOLEAN
  /\ linkOK \in BOOLEAN
  /\ goos = "windows" => linkOK
  /\ parentLink = FALSE
  /\ dst \in {Absent, FileAt(OldIno),
              [kind |-> "dir", ino |-> OldIno],
              [kind |-> "symlink", ino |-> OldIno],
              [kind |-> "other", ino |-> OldIno]}
  /\ tmp = [w \in Writers |-> FALSE]
  /\ ino = [i \in InoIds |->
             IF i = OldIno
               THEN [data |-> OldData, perm |-> OldPerm, synced |-> TRUE]
               ELSE [data |-> <<>>, perm |-> 0, synced |-> FALSE]]
  /\ pc = [w \in Writers |-> "idle"]
  /\ req = [w \in Writers |-> NoReq]
  /\ ret = [w \in Writers |-> "none"]
  /\ attempt = [w \in Writers |-> 0]
  /\ hist = [w \in Writers |-> NoHist]
  /\ lastCommit = 0

\* ----------------------------------------------------------------- helpers
Goto(w, l) == pc' = [pc EXCEPT ![w] = l]
\* return err
Return(w, e) == /\ pc' = [pc EXCEPT ![w] = "done"]
                /\ ret' = [ret EXCEPT ![w] = e]
\* return cleanup(nil): the cleanup closure runs and the error is lost.
FailDropsError(w, e) == /\ pc' = [pc EXCEPT ![w] = "cleanup"]
                        /\ ret' = [ret EXCEPT ![w] = "ok"]

\* return cleanup(err): the error is kept, the cleanup closure runs next
Fail(w, e) == /\ pc' = [pc EXCEPT ![w] = "cleanup"]
              /\ ret' = [ret EXCEPT ![w] = e]

\* An environment: another process makes a component of the parent chain a
\* symbolic link (to a directory with the same entries).
EnvSymlinkParent ==
  /\ ~parentLink
  /\ \E w \in Writers : pc[w] # "done"
  /\ parentLink' = TRUE
  /\ UNCHANGED <<env, dst, tmp, ino, pc, req, ret, attempt, hist, lastCommit>>

\* PathGuard: an error when a component of the parent chain is a symlink.
VerifyDirNoSymlink(isLink) == IF isLink THEN "SymlinkInParent" ELSE "nil"

\* byte values are opaque to the program: the k-th distinct byte value the
\* calls use is k.
FreshByte(d) ==
  LET used == {req[v].data[1] : v \in {u \in Writers : Len(req[u].data) > 0}}
  IN Len(d) > 0 => d[1] <= Cardinality(used) + 1

\* the call and NormalizePath(path), lines 187-191: an unusable path returns
\* at once, whatever the other arguments are. Calls are numbered in the
\* order they are made.
Call(w) ==
  /\ pc[w] = "idle"
  /\ \A v \in Writers : v < w => pc[v] # "idle"
  /\ hist' = [hist EXCEPT ![w].pre = View(dst, ino),
                          ![w].preLink = parentLink,
                          ![w].seq = \A v \in Writers : v < w => pc[v] = "done"]
  /\ \/ \E d \in Payloads, pm \in Perms, ow \in BOOLEAN :
          /\ FreshByte(d)
          /\ req' = [req EXCEPT ![w] = [data |-> d, perm |-> pm,
                                        overwrite |-> ow]]
          /\ Goto(w, "verify")
          /\ UNCHANGED ret
     \/ /\ Return(w, "InvalidPath")
        /\ UNCHANGED req
  /\ UNCHANGED <<env, parentLink, dst, tmp, ino, attempt, lastCommit>>

\* Verify with the error of the parent guard dropped.
VerifyIgnored(w) ==
  /\ pc[w] = "verify"
  /\ Goto(w, "lstat")
  /\ UNCHANGED <<env, parentLink, dst, tmp, ino, req, ret, attempt, hist,
                 lastCommit>>

\* VerifyDirNoSymlink(parent), lines 193-198.
Verify(w) ==
  /\ pc[w] = "verify"
  /\ LET e == VerifyDirNoSymlink(parentLink) IN
       IF e # "nil" THEN Return(w, e)
       ELSE Goto(w, "lstat") /\ UNCHANGED ret
  /\ UNCHANGED <<env, parentLink, dst, tmp, ino, req, attempt, hist, lastCommit>>

\* a symbolic link at p: to the file that exists before any call, or to a
\* target that does not exist.
LinkKinds == {"symlink", "dangling"}

\* Classify without the overwrite test of line 208.
ClassifyNoExist(kind, overwrite) ==
  IF kind = "dir" THEN "IsDirectory"
  ELSE IF kind \notin {"file"} \cup LinkKinds THEN "NonRegular"
  ELSE "nil"

\* Classify with the overwrite test moved before the directory test.
ClassifyExistFirst(kind, overwrite) ==
  IF ~overwrite THEN "AlreadyExists"
  ELSE IF kind = "dir" THEN "IsDirectory"
  ELSE IF kind \notin {"file"} \cup LinkKinds THEN "NonRegular"
  ELSE "nil"

\* Classify with the type test moved after the overwrite test.
ClassifyTypeLast(kind, overwrite) ==
  IF kind = "dir" THEN "IsDirectory"
  ELSE IF ~overwrite THEN "AlreadyExists"
  ELSE IF kind \notin {"file"} \cup LinkKinds THEN "NonRegular"
  ELSE "nil"

\* Classify with a symbolic link taken for a non-regular file.
ClassifyLinkAsOther(kind, overwrite) ==
  IF kind = "dir" THEN "IsDirectory"
  ELSE IF kind # "file" THEN "NonRegular"
  ELSE IF ~overwrite THEN "AlreadyExists"
  ELSE "nil"

\* the classification of an existing destination, lines 202-210.
Classify(kind, overwrite) ==
  IF kind = "dir" THEN "IsDirectory"
  ELSE IF kind \notin {"file"} \cup LinkKinds THEN "NonRegular"
  ELSE IF ~overwrite THEN "AlreadyExists"
  ELSE "nil"

\* os.Lstat(p) and the destination pre-check, lines 201-213.
LstatDst(w) ==
  /\ pc[w] = "lstat"
  /\ \/ /\ dst.kind # "absent"
        /\ LET e == Classify(dst.kind, req[w].overwrite) IN
             IF e # "nil" THEN Return(w, e)
             ELSE Goto(w, "createTemp") /\ UNCHANGED ret
     \/ /\ dst.kind = "absent"
        /\ Goto(w, "createTemp")
        /\ UNCHANGED ret
     \/ /\ faulty
        /\ Return(w, "IOError")
  /\ UNCHANGED <<env, parentLink, dst, tmp, ino, req, attempt, hist, lastCommit>>

\* os.CreateTemp(parent, ".tmp-llmtools-*"), lines 215-219.
CreateTemp(w) ==
  /\ pc[w] = "createTemp"
  /\ \/ /\ tmp' = [tmp EXCEPT ![w] = TRUE]
        /\ ino' = [ino EXCEPT ![TmpIno(w)] =
                     [data |-> <<>>, perm |-> TempPerm, synced |-> FALSE]]
        /\ hist' = [hist EXCEPT ![w].tmpMade = @ + 1]
        /\ Goto(w, "chmodTmp")
        /\ UNCHANGED ret
     \/ /\ faulty
        /\ Return(w, "IOError")
        /\ UNCHANGED <<tmp, ino, hist>>
  /\ UNCHANGED <<env, parentLink, dst, req, attempt, lastCommit>>

\* _ = tmp.Chmod(perm), line 227: best effort.
ChmodTmp(w) ==
  /\ pc[w] = "chmodTmp"
  /\ \/ ino' = [ino EXCEPT ![TmpIno(w)].perm = req[w].perm]
     \/ faulty /\ UNCHANGED ino
  /\ Goto(w, "write")
  /\ UNCHANGED <<env, parentLink, dst, tmp, req, ret, attempt, hist, lastCommit>>

\* WriteTmp without the short-write test of line 233: a short write that
\* reports no error goes on to the flush.
WriteTmpUnchecked(w) ==
  /\ pc[w] = "write"
  /\ \/ /\ ino' = [ino EXCEPT ![TmpIno(w)].data = req[w].data]
        /\ Goto(w, "sync")
        /\ UNCHANGED ret
     \/ /\ faulty
        /\ \E n \in 0 .. Len(req[w].data), short \in BOOLEAN :
             /\ short => n < Len(req[w].data)
             /\ ino' = [ino EXCEPT ![TmpIno(w)].data = SubSeq(req[w].data, 1, n)]
             /\ IF short THEN Goto(w, "sync") /\ UNCHANGED ret
                ELSE Fail(w, "IOError")
  /\ UNCHANGED <<env, parentLink, dst, tmp, req, attempt, hist, lastCommit>>

\* tmp.Write(data) and the short-write test, lines 229-235.
WriteTmp(w) ==
  /\ pc[w] = "write"
  /\ \/ /\ ino' = [ino EXCEPT ![TmpIno(w)].data = req[w].data]
        /\ Goto(w, "sync")
        /\ UNCHANGED ret
     \/ /\ faulty
        /\ \E n \in 0 .. Len(req[w].data), short \in BOOLEAN :
             /\ short => n < Len(req[w].data)
             /\ ino' = [ino EXCEPT ![TmpIno(w)].data = SubSeq(req[w].data, 1, n)]
             /\ Fail(w, IF short THEN "ShortWrite" ELSE "IOError")
  /\ UNCHANGED <<env, parentLink, dst, tmp, req, attempt, hist, lastCommit>>

\* SyncTmp with a failed flush followed by a second write of the payload.
SyncTmpRetried(w) ==
  /\ pc[w] = "sync"
  /\ \/ /\ ino' = [ino EXCEPT ![TmpIno(w)].synced = TRUE]
        /\ Goto(w, "close")
     \/ /\ faulty
        /\ Goto(w, "write")
        /\ UNCHANGED ino
  /\ UNCHANGED <<env, parentLink, dst, tmp, req, ret, attempt, hist, lastCommit>>

\* SyncTmp with the error of the flush dropped.
SyncTmpIgnored(w) ==
  /\ pc[w] = "sync"
  /\ \/ ino' = [ino EXCEPT ![TmpIno(w)].synced = TRUE]
     \/ faulty /\ UNCHANGED ino
  /\ Goto(w, "close")
  /\ UNCHANGED <<env, parentLink, dst, tmp, req, ret, attempt, hist, lastCommit>>

\* tmp.Sync(), lines 236-238.
SyncTmp(w) ==
  /\ pc[w] = "sync"
  /\ \/ /\ ino' = [ino EXCEPT ![TmpIno(w)].synced = TRUE]
        /\ Goto(w, "close")
        /\ UNCHANGED ret
     \/ /\ faulty
        /\ Fail(w, "IOError")
        /\ UNCHANGED ino
  /\ UNCHANGED <<env, parentLink, dst, tmp, req, attempt, hist, lastCommit>>

\* the commit strategy, lines 244, 246, 306.
CommitPc(w) ==
  IF ~req[w].overwrite
    THEN IF goos = "windows" THEN "winRenameNX" ELSE "link"
    ELSE IF goos = "windows" THEN "winRename" ELSE "rename"

\* tmp.Close(), lines 239-241, then the dispatch to the commit.
CloseTmp(w) ==
  /\ pc[w] = "close"
  /\ \/ Goto(w, CommitPc(w)) /\ UNCHANGED ret
     \/ faulty /\ Fail(w, "IOError")
  /\ UNCHANGED <<env, parentLink, dst, tmp, ino, req, attempt, hist, lastCommit>>

\* cleanup that removes every file named .tmp-llmtools-* of the directory.
CleanupAll(w) ==
  /\ pc[w] = "cleanup"
  /\ tmp' = [v \in Writers |-> FALSE]
  /\ Goto(w, "done")
  /\ UNCHANGED <<env, parentLink, dst, ino, req, ret, attempt, hist, lastCommit>>

\* cleanup that closes the staging file and does not remove it.
CleanupKeeps(w) ==
  /\ pc[w] = "cleanup"
  /\ Goto(w, "done")
  /\ UNCHANGED <<env, parentLink, dst, tmp, ino, req, ret, attempt, hist,
                 lastCommit>>

\* cleanup(retErr), lines 221-225: close and remove the staging file, best
\* effort, and return the error.
Cleanup(w) ==
  /\ pc[w] = "cleanup"
  /\ \/ tmp' = [tmp EXCEPT ![w] = FALSE]
     \/ faulty /\ UNCHANGED tmp
  /\ Goto(w, "done")
  /\ UNCHANGED <<env, parentLink, dst, ino, req, ret, attempt, hist, lastCommit>>

\* ------------------------------------------------------ commit primitives
\* history: the destination at the instant of the commit primitive.
AtCommit(w) ==
  hist' = [hist EXCEPT ![w].atCommit = IF dst.kind = "absent" THEN "absent"
                                       ELSE "exists"]

\* a rename that reports success and leaves an existing p in place.
RenameNoReplace(w) ==
  /\ dst.kind # "dir"
  /\ dst' = IF dst.kind = "absent" THEN FileAt(TmpIno(w)) ELSE dst
  /\ tmp' = [tmp EXCEPT ![w] = FALSE]
  /\ lastCommit' = w
  /\ AtCommit(w)

\* a rename that leaves the staging name in place beside p.
RenameLeavesTmp(w) ==
  /\ dst.kind # "dir"
  /\ dst' = FileAt(TmpIno(w))
  /\ UNCHANGED tmp
  /\ lastCommit' = w
  /\ AtCommit(w)

\* os.Rename(tmpName, p) succeeding: p names the staged file, the staging
\* name is gone. It replaces an existing p that is not a directory (on
\* Windows too: the overwrite loop of lines 308-318 tries it first).
RenameOK(w) ==
  /\ dst.kind # "dir"
  /\ dst' = FileAt(TmpIno(w))
  /\ tmp' = [tmp EXCEPT ![w] = FALSE]
  /\ lastCommit' = w
  /\ AtCommit(w)

\* os.Rename(tmpName, p) failing: nothing changes.
RenameErr(w) ==
  /\ faulty \/ dst.kind = "dir"
  /\ AtCommit(w)
  /\ UNCHANGED <<dst, tmp, lastCommit>>

\* os.Remove(p), best effort: the entry p names now is removed, or it fails.
RemoveDst ==
  \/ dst' = Absent
  \/ faulty /\ UNCHANGED dst

\* overwrite=false on Windows: os.Rename(tmpName, p), lines 247-253.
WinRenameNX(w) ==
  /\ pc[w] = "winRenameNX"
  /\ \/ RenameOK(w) /\ Goto(w, "chmodDst")
     \/ RenameErr(w) /\ Goto(w, "winLstatNX")
  /\ UNCHANGED <<env, parentLink, ino, req, ret, attempt>>

\* WinLstatNX without the existence check: every failed rename is reported
\* as AlreadyExists.
WinLstatNXExists(w) ==
  /\ pc[w] = "winLstatNX"
  /\ Fail(w, "AlreadyExists")
  /\ UNCHANGED <<env, parentLink, dst, tmp, ino, req, attempt, hist, lastCommit>>

\* the existence check that classifies the failed rename, lines 249-252.
WinLstatNX(w) ==
  /\ pc[w] = "winLstatNX"
  /\ \/ dst.kind # "absent" /\ Fail(w, "AlreadyExists")
     \/ dst.kind = "absent" /\ Fail(w, "IOError")
     \/ faulty /\ dst.kind # "absent" /\ Fail(w, "IOError")
  /\ UNCHANGED <<env, parentLink, dst, tmp, ino, req, attempt, hist, lastCommit>>

\* overwrite=false on Unix: os.Link(tmpName, p), lines 260-267.
Link(w) ==
  /\ pc[w] = "link"
  /\ \/ /\ linkOK
        /\ dst.kind = "absent"
        /\ dst' = FileAt(TmpIno(w))
        /\ lastCommit' = w
        /\ AtCommit(w)
        /\ Goto(w, "rmTmpL")
        /\ UNCHANGED ret
     \/ /\ dst.kind # "absent"
        /\ AtCommit(w)
        /\ Fail(w, "AlreadyExists")
        /\ UNCHANGED <<dst, lastCommit>>
     \/ /\ faulty \/ ~linkOK
        /\ Goto(w, "openExcl")
        /\ UNCHANGED <<dst, ret, lastCommit, hist>>
  /\ UNCHANGED <<env, parentLink, tmp, ino, req, attempt>>

\* _ = os.Remove(tmpName) after the link, line 261, and after the copy,
\* line 299: best effort.
RemoveTmp(w, from, to) ==
  /\ pc[w] = from
  /\ \/ tmp' = [tmp EXCEPT ![w] = FALSE]
     \/ faulty /\ UNCHANGED tmp
  /\ Goto(w, to)
  /\ UNCHANGED <<env, parentLink, dst, ino, req, ret, attempt, hist, lastCommit>>

RmTmpL(w) == RemoveTmp(w, "rmTmpL", "chmodDst")
RmTmpF(w) == RemoveTmp(w, "rmTmpF", "syncDir")

\* OpenExcl without the os.ErrExist test of lines 272-274: an existing
\* destination gives the error of os.OpenFile as it is.
OpenExclUnclassified(w) ==
  /\ pc[w] = "openExcl"
  /\ \/ /\ dst.kind = "absent"
        /\ dst' = FileAt(FbIno(w))
        /\ \E u \in Umasks :
             ino' = [ino EXCEPT ![FbIno(w)] =
                       [data |-> <<>>, perm |-> AndNot(req[w].perm, u),
                        synced |-> FALSE]]
        /\ lastCommit' = w
        /\ AtCommit(w)
        /\ Goto(w, "openTmp")
        /\ UNCHANGED ret
     \/ /\ faulty \/ dst.kind # "absent"
        /\ AtCommit(w)
        /\ Fail(w, "IOError")
        /\ UNCHANGED <<dst, ino, lastCommit>>
  /\ UNCHANGED <<env, parentLink, tmp, req, attempt>>

\* os.OpenFile(p, O_WRONLY|O_CREATE|O_EXCL, perm), lines 270-276: the file
\* is created with perm less the bits of the umask the process has then.
OpenExcl(w) ==
  /\ pc[w] = "openExcl"
  /\ \/ /\ dst.kind = "absent"
        /\ dst' = FileAt(FbIno(w))
        /\ \E u \in Umasks :
             ino' = [ino EXCEPT ![FbIno(w)] =
                       [data |-> <<>>, perm |-> AndNot(req[w].perm, u),
                        synced |-> FALSE]]
        /\ lastCommit' = w
        /\ AtCommit(w)
        /\ Goto(w, "openTmp")
        /\ UNCHANGED ret
     \/ /\ dst.kind # "absent"
        /\ AtCommit(w)
        /\ Fail(w, "AlreadyExists")
        /\ UNCHANGED <<dst, ino, lastCommit>>
     \/ /\ faulty
        /\ dst.kind = "absent"
        /\ AtCommit(w)
        /\ Fail(w, "IOError")
        /\ UNCHANGED <<dst, ino, lastCommit>>
  /\ UNCHANGED <<env, parentLink, tmp, req, attempt>>

\* a step of the copy fallback failing: os.Remove(p) comes next.
FailCopy(w) == /\ faulty
               /\ pc' = [pc EXCEPT ![w] = "rmDst"]
               /\ ret' = [ret EXCEPT ![w] = "IOError"]

\* os.Open(tmpName), lines 279-283.
OpenTmp(w) ==
  /\ pc[w] = "openTmp"
  /\ \/ Goto(w, "copy") /\ UNCHANGED ret
     \/ FailCopy(w)
  /\ UNCHANGED <<env, parentLink, dst, tmp, ino, req, attempt, hist, lastCommit>>

\* a copy that stops one byte before the end of the source.
CopyDoneEarly(n, src) == n + 1 >= Len(src)

\* io.Copy stops at the end of the source.
CopyDone(n, src) == n >= Len(src)

\* io.Copy(out, in), lines 286-289: the staged bytes reach the file opened
\* at line 270 one write at a time.
Copy(w) ==
  /\ pc[w] = "copy"
  /\ LET src == ino[TmpIno(w)].data
         n == Len(ino[FbIno(w)].data) IN
       \/ /\ ~CopyDone(n, src)
          /\ ino' = [ino EXCEPT ![FbIno(w)].data = Append(@, src[n + 1])]
          /\ UNCHANGED <<pc, ret>>
       \/ /\ CopyDone(n, src)
          /\ Goto(w, "syncOut")
          /\ UNCHANGED <<ino, ret>>
       \/ /\ FailCopy(w)
          /\ UNCHANGED ino
  /\ UNCHANGED <<env, parentLink, dst, tmp, req, attempt, hist, lastCommit>>

\* out.Sync(), lines 290-293.
SyncOut(w) ==
  /\ pc[w] = "syncOut"
  /\ \/ /\ ino' = [ino EXCEPT ![FbIno(w)].synced = TRUE]
        /\ Goto(w, "closeOut")
        /\ UNCHANGED ret
     \/ /\ FailCopy(w)
        /\ UNCHANGED ino
  /\ UNCHANGED <<env, parentLink, dst, tmp, req, attempt, hist, lastCommit>>

\* out.Close(), lines 294-297.
CloseOut(w) ==
  /\ pc[w] = "closeOut"
  /\ \/ Goto(w, "rmTmpF") /\ UNCHANGED ret
     \/ FailCopy(w)
  /\ UNCHANGED <<env, parentLink, dst, tmp, ino, req, attempt, hist, lastCommit>>

\* _ = os.Remove(p) of the failed copy fallback, lines 281, 287, 291, 295.
RmDst(w) ==
  /\ pc[w] = "rmDst"
  /\ RemoveDst
  /\ Goto(w, "cleanup")
  /\ UNCHANGED <<env, parentLink, tmp, ino, req, ret, attempt, hist, lastCommit>>

\* Rename done as os.Remove(p) followed by a rename onto the absent p.
RenameViaRemove(w) ==
  /\ pc[w] = "rename"
  /\ \/ /\ dst.kind \notin {"absent", "dir"}
        /\ dst' = Absent
        /\ UNCHANGED <<pc, ret, tmp, hist, lastCommit>>
     \/ dst.kind = "absent" /\ RenameOK(w) /\ Goto(w, "chmodDst") /\ UNCHANGED ret
     \/ RenameErr(w) /\ Fail(w, "IOError")
  /\ UNCHANGED <<env, parentLink, ino, req, attempt>>

\* overwrite=true on Unix: os.Rename(tmpName, p), lines 323-325.
Rename(w) ==
  /\ pc[w] = "rename"
  /\ \/ RenameOK(w) /\ Goto(w, "chmodDst") /\ UNCHANGED ret
     \/ RenameErr(w) /\ Fail(w, "IOError")
  /\ UNCHANGED <<env, parentLink, ino, req, attempt>>

\* overwrite=true on Windows: os.Rename(tmpName, p), lines 309-312.
WinRename(w) ==
  /\ pc[w] = "winRename"
  /\ \/ /\ RenameOK(w)
        /\ Goto(w, "chmodDst")
        /\ attempt' = [attempt EXCEPT ![w] = 0]
     \/ /\ RenameErr(w)
        /\ Goto(w, "winLstat")
        /\ UNCHANGED attempt
  /\ UNCHANGED <<env, parentLink, ino, req, ret>>

\* NextAttempt with a loop bound that is one too large.
NextAttemptOneMore(w) ==
  IF attempt[w] + 1 < MaxAttempts + 1
    THEN /\ attempt' = [attempt EXCEPT ![w] = @ + 1]
         /\ Goto(w, "winRename")
         /\ UNCHANGED ret
    ELSE /\ attempt' = [attempt EXCEPT ![w] = 0]
         /\ Fail(w, "IOError")

\* NextAttempt with a loop that never counts its attempts.
NextAttemptForever(w) ==
  /\ Goto(w, "winRename")
  /\ UNCHANGED <<ret, attempt>>

\* time.Sleep and the loop header, lines 308, 317-321: the next attempt, or
\* return cleanup(renameErr) after the last one (attempt is out of scope
\* once the loop is left).
NextAttempt(w) ==
  IF attempt[w] + 1 < MaxAttempts
    THEN /\ attempt' = [attempt EXCEPT ![w] = @ + 1]
         /\ Goto(w, "winRename")
         /\ UNCHANGED ret
    ELSE /\ attempt' = [attempt EXCEPT ![w] = 0]
         /\ Fail(w, "IOError")

\* os.Lstat(p) after a failed rename, line 314.
WinLstat(w) ==
  /\ pc[w] = "winLstat"
  /\ \/ /\ dst.kind # "absent"
        /\ Goto(w, "winRemove")
        /\ UNCHANGED <<ret, attempt>>
     \/ /\ dst.kind = "absent" \/ faulty
        /\ NextAttempt(w)
  /\ UNCHANGED <<env, parentLink, dst, tmp, ino, req, hist, lastCommit>>

\* _ = os.Remove(p) between two attempts, line 315.
WinRemove(w) ==
  /\ pc[w] = "winRemove"
  /\ RemoveDst
  /\ NextAttempt(w)
  /\ UNCHANGED <<env, parentLink, tmp, ino, req, hist, lastCommit>>

\* ---------------------------------------------------------------- finalize
\* ChmodDst with the mode of the staging file in place of perm.
ChmodDstTemp(w) ==
  /\ pc[w] = "chmodDst"
  /\ \/ /\ dst.kind = "file"
        /\ ino' = [ino EXCEPT ![dst.ino].perm = TempPerm]
     \/ /\ dst.kind = "symlink"
        /\ ino' = [ino EXCEPT ![OldIno].perm = TempPerm]
     \/ /\ faulty \/ dst.kind \notin {"file", "symlink"}
        /\ UNCHANGED ino
  /\ Goto(w, "syncDir")
  /\ UNCHANGED <<env, parentLink, dst, tmp, req, ret, attempt, hist, lastCommit>>

\* _ = os.Chmod(p, perm), lines 254, 262, 328: best effort, on the file p
\* names now (a symlink is followed).
ChmodDst(w) ==
  /\ pc[w] = "chmodDst"
  /\ \/ /\ dst.kind = "file"
        /\ ino' = [ino EXCEPT ![dst.ino].perm = req[w].perm]
     \/ /\ dst.kind = "symlink"
        /\ ino' = [ino EXCEPT ![OldIno].perm = req[w].perm]
     \/ /\ faulty \/ dst.kind \notin {"file", "symlink"}
        /\ UNCHANGED ino
  /\ Goto(w, "syncDir")
  /\ UNCHANGED <<env, parentLink, dst, tmp, req, ret, attempt, hist, lastCommit>>

\* syncDirBestEffort(parent), lines 333-340, called at lines 255, 263, 300
\* and 329: on Windows it returns at once and the call returns nil; elsewhere
\* it goes on to open and flush the directory.
SyncDir(w) ==
  /\ pc[w] = "syncDir"
  /\ IF goos = "windows" THEN Return(w, "ok")
     ELSE Goto(w, "flushDir") /\ UNCHANGED ret
  /\ UNCHANGED <<env, parentLink, dst, tmp, ino, req, attempt, hist, lastCommit>>

\* FlushDir with the error of the flush returned to the caller.
FlushDirChecked(w) ==
  /\ pc[w] = "flushDir"
  /\ \/ Return(w, "ok")
     \/ faulty /\ Return(w, "IOError")
  /\ UNCHANGED <<env, parentLink, dst, tmp, ino, req, attempt, hist, lastCommit>>

\* os.Open(dir) and f.Sync(), lines 341-346, and return nil, lines 256, 264,
\* 301, 330: the flush changes no entry, and whether it succeeds or fails
\* (faulty) its error is dropped by `_ =`.
FlushDir(w) ==
  /\ pc[w] = "flushDir"
  /\ \/ Return(w, "ok")
     \/ faulty /\ Return(w, "ok")
  /\ UNCHANGED <<env, parentLink, dst, tmp, ino, req, attempt, hist, lastCommit>>

Step(w) ==
  \/ Call(w) \/ Verify(w) \/ LstatDst(w) \/ CreateTemp(w) \/ ChmodTmp(w)
  \/ WriteTmp(w) \/ SyncTmp(w) \/ CloseTmp(w) \/ Cleanup(w)
  \/ WinRenameNX(w) \/ WinLstatNX(w)
  \/ Link(w) \/ RmTmpL(w) \/ OpenExcl(w) \/ OpenTmp(w) \/ Copy(w)
  \/ SyncOut(w) \/ CloseOut(w) \/ RmDst(w) \/ RmTmpF(w)
  \/ Rename(w) \/ WinRename(w) \/ WinLstat(w) \/ WinRemove(w)
  \/ ChmodDst(w) \/ SyncDir(w) \/ FlushDir(w)

Next == (\E w \in Writers : Step(w)) \/ EnvSymlinkParent

Spec == Init /\ [][Next]_vars

\* every call is synchronous on the thread of its caller and every
\* filesystem call returns: a call that has a next statement runs it.
Fairness == \A w \in Writers : WF_vars(Step(w))

\* the states in which every call but the last has been made with an
\* unusable path and has returned: one call runs, on every platform and
\* destination, a dangling symbolic link among them.
InitOneCall ==
  /\ ToolIdle
  /\ goos \in {"linux", "windows"}
  /\ faulty \in BOOLEAN
  /\ linkOK \in BOOLEAN
  /\ goos = "windows" => linkOK
  /\ parentLink = FALSE
  /\ dst \in {Absent, FileAt(OldIno),
              [kind |-> "dir", ino |-> OldIno],
              [kind |-> "symlink", ino |-> OldIno],
              [kind |-> "dangling", ino |-> OldIno],
              [kind |-> "other", ino |-> OldIno]}
  /\ tmp = [w \in Writers |-> FALSE]
  /\ ino = [i \in InoIds |->
             IF i = OldIno
               THEN [data |-> OldData, perm |-> OldPerm, synced |-> TRUE]
               ELSE [data |-> <<>>, perm |-> 0, synced |-> FALSE]]
  /\ pc = [w \in Writers |-> IF w < NWriters THEN "done" ELSE "idle"]
  /\ req = [w \in Writers |-> NoReq]
  /\ ret = [w \in Writers |-> IF w < NWriters THEN "InvalidPath" ELSE "none"]
  /\ attempt = [w \in Writers |-> 0]
  /\ hist = [w \in Writers |->
              IF w < NWriters THEN [NoHist EXCEPT !.pre = View(dst, ino)]
              ELSE NoHist]
  /\ lastCommit = 0

FairSpec == InitOneCall /\ [][Next]_vars /\ Fairness

\* --------------------------------------------------------------- CloneTool
\* an array of capacity c that starts with the elements e.
Pad(e, c) == [i \in 1 .. c |-> IF i <= Len(e) THEN e[i] ELSE 0]
\* the capacities an allocation for n elements may have.
GrowCaps(n) == n .. (n + Slack)
\* a slice of n elements over a new array of capacity c, and the heap with it.
NewSlice(e, c, h) ==
  [s |-> [nil |-> FALSE, arr |-> Len(h) + 1, len |-> Len(e), cap |-> c],
   h |-> Append(h, Pad(e, c))]
Same(s, h) == {[s |-> s, h |-> h]}

\* append(s, v): in place when there is room, else into a new array.
GoAppend(s, v, h) ==
  IF ~s.nil /\ s.len < s.cap
    THEN {[s |-> [s EXCEPT !.len = @ + 1],
           h |-> [h EXCEPT ![s.arr][s.len + 1] = v]]}
    ELSE {NewSlice(Append(Elems(s, h), v), c, h) : c \in GrowCaps(s.len + 1)}

\* bytes.Clone(b): nil for nil, else append([]byte{}, b...).
BytesClone(s, h) ==
  IF s.nil THEN Same(s, h)
  ELSE IF s.len = 0 THEN {NewSlice(<<>>, 0, h)}
  ELSE {NewSlice(Elems(s, h), c, h) : c \in GrowCaps(s.len)}

\* append([]string(nil), t.Tags...) of the earlier CloneTool.
AppendToNil(s, h) ==
  IF s.len = 0 THEN Same(NilSlice, h)
  ELSE {NewSlice(Elems(s, h), c, h) : c \in GrowCaps(s.len)}

\* dst := make([]string, len(t.Tags)); copy(dst, t.Tags), lines 36-38.
MakeCopy(s, h) == {NewSlice(Elems(s, h), s.len, h)}

\* the Tool whose ArgSchema is the result a and whose Tags is the result b
\* (b made after a), and the heap after both.
Cloned(a, b) ==
  [t |-> [f \in Fields |-> IF f = "ArgSchema" THEN a.s ELSE b.s], h |-> b.h]

\* CloneTool as it was, clone.go lines 9-19: a slice is copied when its
\* length is not 0.
CloneToolEarlier(t, h) ==
  UNION {{Cloned(a, b) :
            b \in IF t.Tags.len > 0 THEN AppendToNil(t.Tags, a.h)
                  ELSE Same(t.Tags, a.h)} :
         a \in IF t.ArgSchema.len > 0 THEN BytesClone(t.ArgSchema, h)
               ELSE Same(t.ArgSchema, h)}

\* CloneTool, clone.go lines 29-43: a slice is copied when it is not nil.
\* The results: the Tool returned and the heap after the call.
CloneTool(t, h) ==
  UNION {{Cloned(a, b) :
            b \in IF ~t.Tags.nil THEN MakeCopy(t.Tags, a.h)
                  ELSE Same(t.Tags, a.h)} :
         a \in IF ~t.ArgSchema.nil THEN BytesClone(t.ArgSchema, h)
               ELSE Same(t.ArgSchema, h)}

\* the inputs: each field nil, or a slice of length 0..cap over its own
\* array of capacity 0..MaxCap (the elements past the length are 0).
SliceInputs(a) ==
  {[s |-> NilSlice, arr |-> <<>>]} \cup
  UNION {UNION {{[s |-> [nil |-> FALSE, arr |-> a, len |-> n, cap |-> c],
                  arr |-> Pad(e, c)] : e \in [1 .. n -> 1 .. MaxElem]} :
                n \in 0 .. c} :
         c \in 0 .. MaxCap}

\* no call of WriteFileAtomicBytes has been made.
FsIdle ==
  /\ goos = "linux" /\ faulty = FALSE /\ linkOK = TRUE
  /\ parentLink = FALSE
  /\ dst = Absent
  /\ tmp = [w \in Writers |-> FALSE]
  /\ ino = [i \in InoIds |->
             IF i = OldIno
               THEN [data |-> OldData, perm |-> OldPerm, synced |-> TRUE]
               ELSE [data |-> <<>>, perm |-> 0, synced |-> FALSE]]
  /\ pc = [w \in Writers |-> "idle"]
  /\ req = [w \in Writers |-> NoReq]
  /\ ret = [w \in Writers |-> "none"]
  /\ attempt = [w \in Writers |-> 0]
  /\ hist = [w \in Writers |-> NoHist]
  /\ lastCommit = 0

\* a Tool has been built, as the table of TestCloneTool builds them.
InitClone ==
  /\ FsIdle
  /\ StoreIdle
  /\ ImgIdle
  /\ \E x \in SliceInputs(1), y \in SliceInputs(2) :
       /\ heap = <<x.arr, y.arr>>
       /\ orig = [f \in Fields |-> IF f = "ArgSchema" THEN x.s ELSE y.s]
       /\ held = [made |-> FALSE,
                  orig |-> ToolValue(orig, heap),
                  cloned |-> ToolValue(ZeroTool, <<>>)]
  /\ cloned = ZeroTool
  /\ nops = 0

\* cloned := CloneTool(orig): from now on the clone has to hold what the
\* original holds at this instant.
DoClone ==
  /\ ~held.made
  /\ \E r \in CloneTool(orig, heap) :
       /\ cloned' = r.t
       /\ heap' = r.h
  /\ held' = [held EXCEPT !.made = TRUE, !.cloned = ToolValue(orig, heap)]
  /\ UNCHANGED <<goos, faulty, linkOK, fsVars, storeVars, imgFile, img, orig, nops>>

\* cloned.F[i] = v, as assertBytesDeepCopied and assertStringsDeepCopied do.
WriteClone ==
  /\ held.made /\ nops < MaxOps
  /\ \E f \in Fields, v \in 1 .. MaxElem :
       \E i \in 1 .. cloned[f].len :
         /\ heap' = [heap EXCEPT ![cloned[f].arr][i] = v]
         /\ held' = [held EXCEPT !.cloned[f].elems[i] = v]
  /\ nops' = nops + 1
  /\ UNCHANGED <<goos, faulty, linkOK, fsVars, storeVars, imgFile, img, orig, cloned>>

\* cloned.F = append(cloned.F, v)
AppendClone ==
  /\ held.made /\ nops < MaxOps
  /\ \E f \in Fields, v \in 1 .. MaxElem :
       \E r \in GoAppend(cloned[f], v, heap) :
         /\ cloned' = [cloned EXCEPT ![f] = r.s]
         /\ heap' = r.h
         /\ held' = [held EXCEPT !.cloned[f] =
                       [nil |-> FALSE, elems |-> Append(@.elems, v)]]
  /\ nops' = nops + 1
  /\ UNCHANGED <<goos, faulty, linkOK, fsVars, storeVars, imgFile, img, orig>>

\* _ = append(orig.F, v): the header of the original stays as it is.
AppendOrig ==
  /\ held.made /\ nops < MaxOps
  /\ \E f \in Fields, v \in 1 .. MaxElem :
       \E r \in GoAppend(orig[f], v, heap) :
         heap' = r.h
  /\ nops' = nops + 1
  /\ UNCHANGED <<goos, faulty, linkOK, fsVars, storeVars, imgFile, img, orig, cloned, held>>

NextClone == DoClone \/ WriteClone \/ AppendClone \/ AppendOrig

CloneSpec == InitClone /\ [][NextClone]_vars


\* ------------------------------------------------------------ sessionStore
\* what no operation of the store changes.
others == <<goos, faulty, linkOK, fsVars, heap, orig, cloned, held, nops,
            imgFile, img>>

\* sync.RWMutex. RLock is granted at once when no writer holds the lock or
\* waits for it, and else waits until that writer unlocks. Lock first
\* excludes the other writers and the later readers (Announced), then
\* waits for the readers that hold the lock to leave, and is granted.
\* Unlock of the writer grants the lock to every reader that waits;
\* RUnlock removes the reader.
RLock(l, p) ==
  IF l.w = 0 /\ l.a = 0 THEN [l EXCEPT !.r = @ \cup {p}]
  ELSE [l EXCEPT !.q = @ \cup {p}]
Lock(l, p) ==
  IF l.a = p THEN [l EXCEPT !.w = p, !.a = 0] ELSE [l EXCEPT !.a = p]
Unlock(l, p) ==
  IF l.w = p THEN [l EXCEPT !.w = 0, !.r = l.q, !.q = {}]
  ELSE [l EXCEPT !.r = @ \ {p}]

SGoto(p, l) == spc' = [spc EXCEPT ![p] = l]
\* the operation of p returns out.
SReturn(p, out) ==
  /\ spc' = [spc EXCEPT ![p] = "idle"]
  /\ sop' = [sop EXCEPT ![p].out = out]

\* a goroutine calls newSession(), get(id), delete(id) or reset(s): id is an
\* id newSession has returned or one it never returns (0), s a session
\* newSession has returned or nil (0); reset(nil) returns at line 66.
StoreCall(p) ==
  /\ spc[p] = "idle"
  /\ \/ /\ nextId + Cardinality({q \in Procs :
                                    spc[q] \in {"nsLock", "nsRegister"}}) < NIds
        /\ sop' = [sop EXCEPT ![p] = [NoOp EXCEPT !.op = "newSession"]]
        /\ SGoto(p, "nsLock")
     \/ \E id \in 0 .. nextId :
          /\ sop' = [sop EXCEPT ![p] = [NoOp EXCEPT !.op = "get", !.id = id,
                                                    !.late = id \in gone]]
          /\ SGoto(p, "getRLock")
     \/ \E id \in 0 .. nextId :
          /\ sop' = [sop EXCEPT ![p] = [NoOp EXCEPT !.op = "delete", !.id = id]]
          /\ SGoto(p, "delLock")
     \/ \E s \in 0 .. nextId :
          /\ sop' = [sop EXCEPT ![p] =
                       [NoOp EXCEPT !.op = "reset", !.s = s,
                                    !.out = IF s = 0 THEN "nil" ELSE "none",
                                    !.late = \E q \in Procs :
                                               /\ sop[q].op = "delete"
                                               /\ sop[q].id = s
                                               /\ spc[q] # "idle"]]
          /\ IF s = 0 THEN UNCHANGED spc ELSE SGoto(p, "rsLock")
  /\ UNCHANGED <<others, m, sess, nextId, ssMu, sMu, gone>>

\* ss.mu.Lock(), lines 23 and 53, in its two steps.
StoreLock(p, from, to) ==
  /\ spc[p] = from
  /\ \/ /\ ssMu.w = 0 /\ ssMu.a = 0
        /\ UNCHANGED spc
     \/ /\ ssMu.a = p /\ ssMu.r = {}
        /\ SGoto(p, to)
  /\ ssMu' = Lock(ssMu, p)
  /\ UNCHANGED <<others, m, sess, nextId, sMu, sop, gone>>

NsLock(p) == StoreLock(p, "nsLock", "nsRegister")
DelLock(p) == StoreLock(p, "delLock", "delTake")

\* id := newSessionID(); s := &shellSession{...}; ss.m[id] = s, lines 26-32:
\* newSessionID returns an id it has not returned before.
NsRegister(p) ==
  /\ spc[p] = "nsRegister"
  /\ LET id == nextId + 1 IN
       /\ nextId' = id
       /\ sess' = [sess EXCEPT ![id] = [NoSess EXCEPT !.id = id]]
       /\ m' = [m EXCEPT ![id] = id]
       /\ sop' = [sop EXCEPT ![p].s = id]
  /\ SGoto(p, "nsUnlock")
  /\ UNCHANGED <<others, ssMu, sMu, gone>>

\* return s with the deferred ss.mu.Unlock(), lines 24 and 33.
NsUnlock(p) ==
  /\ spc[p] = "nsUnlock"
  /\ ssMu' = Unlock(ssMu, p)
  /\ SReturn(p, "s")
  /\ UNCHANGED <<others, m, sess, nextId, sMu, gone>>

\* ss.mu.RLock(), line 37: the call, which is granted or waits, and the
\* return of a call that waited.
GetRLock(p) ==
  /\ spc[p] = "getRLock"
  /\ \/ /\ p \notin ssMu.r \cup ssMu.q
        /\ ssMu' = RLock(ssMu, p)
     \/ /\ p \in ssMu.r
        /\ UNCHANGED ssMu
  /\ IF p \in ssMu'.r THEN SGoto(p, "getLookup") ELSE UNCHANGED spc
  /\ UNCHANGED <<others, m, sess, nextId, sMu, sop, gone>>

\* s, ok := ss.m[id], line 38.
GetLookup(p) ==
  /\ spc[p] = "getLookup"
  /\ LET id == sop[p].id
         found == id \in Ids /\ m[id] # 0 IN
       sop' = [sop EXCEPT ![p].s = IF found THEN m[id] ELSE 0,
                          ![p].ok = found]
  /\ SGoto(p, "getRUnlock")
  /\ UNCHANGED <<others, m, sess, nextId, ssMu, sMu, gone>>

\* GetRUnlock with the RUnlock deferred: get keeps the store's read lock.
GetRUnlockDeferred(p) ==
  /\ spc[p] = "getRUnlock"
  /\ IF ~sop[p].ok \/ sop[p].s = 0 THEN SReturn(p, "nil")
     ELSE SGoto(p, "getSRLock") /\ UNCHANGED sop
  /\ UNCHANGED <<others, m, sess, nextId, ssMu, sMu, gone>>

\* ss.mu.RUnlock() and the test of ok, lines 39-42.
GetRUnlock(p) ==
  /\ spc[p] = "getRUnlock"
  /\ ssMu' = Unlock(ssMu, p)
  /\ IF ~sop[p].ok \/ sop[p].s = 0 THEN SReturn(p, "nil")
     ELSE SGoto(p, "getSRLock") /\ UNCHANGED sop
  /\ UNCHANGED <<others, m, sess, nextId, sMu, gone>>

\* s.mu.RLock(), line 43, likewise.
GetSRLock(p) ==
  /\ spc[p] = "getSRLock"
  /\ \/ /\ p \notin sMu[sop[p].s].r \cup sMu[sop[p].s].q
        /\ sMu' = [sMu EXCEPT ![sop[p].s] = RLock(@, p)]
     \/ /\ p \in sMu[sop[p].s].r
        /\ UNCHANGED sMu
  /\ IF p \in sMu'[sop[p].s].r THEN SGoto(p, "getRead") ELSE UNCHANGED spc
  /\ UNCHANGED <<others, m, sess, nextId, ssMu, sop, gone>>

\* GetRead without the read of the flag: closed := false.
GetReadSkipped(p) ==
  /\ spc[p] = "getRead"
  /\ sop' = [sop EXCEPT ![p].closed = FALSE]
  /\ SGoto(p, "getSRUnlock")
  /\ UNCHANGED <<others, m, sess, nextId, ssMu, sMu, gone>>

\* closed := s.closed, line 44.
GetRead(p) ==
  /\ spc[p] = "getRead"
  /\ sop' = [sop EXCEPT ![p].closed = sess[sop[p].s].closed]
  /\ SGoto(p, "getSRUnlock")
  /\ UNCHANGED <<others, m, sess, nextId, ssMu, sMu, gone>>

\* s.mu.RUnlock() and the test of closed, lines 45-49.
GetSRUnlock(p) ==
  /\ spc[p] = "getSRUnlock"
  /\ sMu' = [sMu EXCEPT ![sop[p].s] = Unlock(@, p)]
  /\ SReturn(p, IF sop[p].closed THEN "nil" ELSE "s")
  /\ UNCHANGED <<others, m, sess, nextId, ssMu, gone>>

\* s := ss.m[id]; delete(ss.m, id), lines 54-55.
DelTake(p) ==
  /\ spc[p] = "delTake"
  /\ LET id == sop[p].id IN
       /\ sop' = [sop EXCEPT ![p].s = IF id \in Ids THEN m[id] ELSE 0]
       /\ m' = IF id \in Ids THEN [m EXCEPT ![id] = 0] ELSE m
  /\ SGoto(p, "delUnlock")
  /\ UNCHANGED <<others, sess, nextId, ssMu, sMu, gone>>

\* ss.mu.Unlock() and the test of s, lines 56-57: delete returns when s is
\* nil.
DelUnlock(p) ==
  /\ spc[p] = "delUnlock"
  /\ ssMu' = Unlock(ssMu, p)
  /\ IF sop[p].s = 0
       THEN SReturn(p, "nil") /\ gone' = gone \cup {sop[p].id}
       ELSE SGoto(p, "delSLock") /\ UNCHANGED <<sop, gone>>
  /\ UNCHANGED <<others, m, sess, nextId, sMu>>

\* s.mu.Lock(), lines 58 and 68, in its two steps.
SessLock(p, from, to) ==
  /\ spc[p] = from
  /\ \/ /\ sMu[sop[p].s].w = 0 /\ sMu[sop[p].s].a = 0
        /\ UNCHANGED spc
     \/ /\ sMu[sop[p].s].a = p /\ sMu[sop[p].s].r = {}
        /\ SGoto(p, to)
  /\ sMu' = [sMu EXCEPT ![sop[p].s] = Lock(@, p)]
  /\ UNCHANGED <<others, m, sess, nextId, ssMu, sop, gone>>

DelSLock(p) == SessLock(p, "delSLock", "delClose")
RsLock(p) == SessLock(p, "rsLock", "rsBody")

\* s.closed = true, line 59.
DelClose(p) ==
  /\ spc[p] = "delClose"
  /\ sess' = [sess EXCEPT ![sop[p].s].closed = TRUE]
  /\ SGoto(p, "delSUnlock")
  /\ UNCHANGED <<others, m, nextId, ssMu, sMu, sop, gone>>

\* s.mu.Unlock() and the return of delete, lines 60-62.
DelSUnlock(p) ==
  /\ spc[p] = "delSUnlock"
  /\ sMu' = [sMu EXCEPT ![sop[p].s] = Unlock(@, p)]
  /\ SReturn(p, "nil")
  /\ gone' = gone \cup {sop[p].id}
  /\ UNCHANGED <<others, m, sess, nextId, ssMu>>

\* RsBody without the test of line 70: a closed session is emptied too.
RsBodyUntested(p) ==
  /\ spc[p] = "rsBody"
  /\ sess' = [sess EXCEPT ![sop[p].s].workdir = "", ![sop[p].s].env = {}]
  /\ sop' = [sop EXCEPT ![p].closed = sess[sop[p].s].closed]
  /\ SGoto(p, "rsUnlock")
  /\ UNCHANGED <<others, m, nextId, ssMu, sMu, gone>>

\* the body of reset, lines 70-74: nothing for a closed session, else
\* workdir and env are emptied.
RsBody(p) ==
  /\ spc[p] = "rsBody"
  /\ sess' = IF sess[sop[p].s].closed THEN sess
             ELSE [sess EXCEPT ![sop[p].s].workdir = "",
                               ![sop[p].s].env = {}]
  /\ sop' = [sop EXCEPT ![p].closed = sess[sop[p].s].closed]
  /\ SGoto(p, "rsUnlock")
  /\ UNCHANGED <<others, m, nextId, ssMu, sMu, gone>>

\* the deferred s.mu.Unlock() and the return of reset, lines 69, 71, 75.
RsUnlock(p) ==
  /\ spc[p] = "rsUnlock"
  /\ sMu' = [sMu EXCEPT ![sop[p].s] = Unlock(@, p)]
  /\ SReturn(p, "nil")
  /\ UNCHANGED <<others, m, sess, nextId, ssMu, gone>>

\* the shell tool runs a command in session s: under s.mu it stores the
\* working directory and the environment the command left. This code of
\* package shelltool is outside the files at hand; it is what gives the
\* fields of lines 7-8 the values reset clears.
SessUse(p) ==
  /\ spc[p] = "idle"
  /\ \E s \in 1 .. nextId, wd \in Workdirs, e \in Envs :
       /\ sMu[s] = Unlocked
       /\ <<wd, e>> # <<sess[s].workdir, sess[s].env>>
       /\ sess' = [sess EXCEPT ![s].workdir = wd, ![s].env = e]
  /\ UNCHANGED <<others, m, nextId, ssMu, sMu, spc, sop, gone>>

StoreStep(p) ==
  \/ StoreCall(p)
  \/ SessUse(p)
  \/ NsLock(p) \/ NsRegister(p) \/ NsUnlock(p)
  \/ GetRLock(p) \/ GetLookup(p) \/ GetRUnlock(p)
  \/ GetSRLock(p) \/ GetRead(p) \/ GetSRUnlock(p)
  \/ DelLock(p) \/ DelTake(p) \/ DelUnlock(p)
  \/ DelSLock(p) \/ DelClose(p) \/ DelSUnlock(p)
  \/ RsLock(p) \/ RsBody(p) \/ RsUnlock(p)

NextStore == \E p \in Procs : StoreStep(p)

\* a new store, with no call of WriteFileAtomicBytes and no Tool.
InitStore ==
  /\ FsIdle
  /\ ToolIdle

StoreSpec == InitStore /\ [][NextStore]_vars

\* the steps in which goroutine p takes a lock, and the other steps of an
\* operation p has called.
Acquire(p) ==
  \/ NsLock(p) \/ DelLock(p) \/ GetRLock(p)
  \/ GetSRLock(p) \/ DelSLock(p) \/ RsLock(p)
Proceed(p) ==
  \/ NsRegister(p) \/ NsUnlock(p)
  \/ GetLookup(p) \/ GetRUnlock(p) \/ GetRead(p) \/ GetSRUnlock(p)
  \/ DelTake(p) \/ DelUnlock(p) \/ DelClose(p) \/ DelSUnlock(p)
  \/ RsBody(p) \/ RsUnlock(p)

\* a goroutine that can run its next statement runs it; sync.RWMutex does
\* not starve a caller: a blocked Lock keeps later readers out, Unlock
\* admits the readers that wait before the next writer, and the writers
\* queue on a sync.Mutex that hands the lock to a waiter that waited long.
StoreFairness ==
  \A p \in Procs : WF_vars(Proceed(p)) /\ SF_vars(Acquire(p))

\* the calls of the store and their steps. SessUse is left out: it changes
\* only workdir and env, which no step of the store reads unless to clear
\* them, and it holds no lock from one state to the next, so it neither
\* enables nor disables a step of an operation.
NextStoreOps ==
  \E p \in Procs : StoreCall(p) \/ Acquire(p) \/ Proceed(p)

FairStoreSpec == InitStore /\ [][NextStoreOps]_vars /\ StoreFairness

\* --------------------------------------------------------------- ReadImage
\* ReadImage(path, includeBase64Data, maxBytes) up to its test of the file,
\* lines 37-81: os.Lstat(p) gives out.Size; a path that names nothing gives
\* an ImageData with Exists false, a link or a directory an error.
ImgLstat ==
  /\ img.pc = "idle"
  /\ \E b \in BOOLEAN, mb \in 0 .. MaxLimit :
       LET c == [img EXCEPT !.b64 = b, !.maxBytes = mb] IN
         img' = IF imgFile.kind = "absent"
                  THEN [c EXCEPT !.pc = "done", !.ret = "ok",
                                 !.hasData = TRUE]
                ELSE IF imgFile.kind = "file"
                  THEN [c EXCEPT !.pc = "open", !.size = imgFile.size]
                ELSE [c EXCEPT !.pc = "done", !.ret = "NotRegular"]
  /\ UNCHANGED <<goos, faulty, linkOK, fsVars, toolVars, storeVars, imgFile>>

\* the test of out.Size and os.Open(out.Path), lines 84-98, and without
\* base64 the whole of lines 127-142: the decoder reads the header through
\* io.LimitReader(f, maxBytes) and no data is returned.
ImgOpen ==
  /\ img.pc = "open"
  /\ IF img.b64
       THEN IF img.maxBytes > 0 /\ img.size > img.maxBytes
              THEN img' = [img EXCEPT !.pc = "done", !.ret = "TooLarge"]
              ELSE \/ img' = [img EXCEPT !.pc = "read"]
                   \/ img' = [img EXCEPT !.pc = "done", !.ret = "IOError"]
       ELSE \/ img' = [img EXCEPT !.pc = "done", !.ret = "IOError"]
            \/ \E k \in 0 .. imgFile.size :
                 /\ img.maxBytes > 0 => k <= img.maxBytes
                 /\ \/ img' = [img EXCEPT !.pc = "done", !.nread = k,
                                           !.ret = "ok", !.hasData = TRUE]
                    \/ img' = [img EXCEPT !.pc = "done", !.nread = k,
                                           !.ret = "DecodeError"]
  /\ UNCHANGED <<goos, faulty, linkOK, fsVars, toolVars, storeVars, imgFile>>

\* one Read of io.ReadAll(r), lines 100-107, r being f or, with maxBytes > 0,
\* io.LimitReader(f, maxBytes+1): the LimitReader answers EOF once maxBytes+1
\* bytes have been read and else passes on at most what is left of them; the
\* file answers EOF at its end, an error, or one byte or more of what it
\* holds past the offset.
ImgRead ==
  /\ img.pc = "read"
  /\ LET limited == img.maxBytes > 0
         left == img.maxBytes + 1 - img.nread
         avail == imgFile.size - img.nread IN
       IF (limited /\ left <= 0) \/ avail <= 0
         THEN img' = [img EXCEPT !.pc = "finish"]
         ELSE \/ \E k \in 1 .. avail :
                   /\ limited => k <= left
                   /\ img' = [img EXCEPT !.nread = @ + k]
              \/ img' = [img EXCEPT !.pc = "done", !.ret = "IOError"]
  /\ UNCHANGED <<goos, faulty, linkOK, fsVars, toolVars, storeVars, imgFile>>

\* ImgFinish without the test of len(data), lines 108-115.
ImgFinishUntested ==
  /\ img.pc = "finish"
  /\ \/ img' = [img EXCEPT !.pc = "done", !.ret = "ok", !.hasData = TRUE,
                            !.dataLen = img.nread,
                            !.b64Len = 4 * ((img.nread + 2) \div 3)]
     \/ img' = [img EXCEPT !.pc = "done", !.ret = "DecodeError"]
  /\ UNCHANGED <<goos, faulty, linkOK, fsVars, toolVars, storeVars, imgFile>>

\* the test of len(data), decodeImageConfig and the encoding, lines 108-123:
\* base64.StdEncoding gives four characters for every three bytes or part
\* of three.
ImgFinish ==
  /\ img.pc = "finish"
  /\ IF img.maxBytes > 0 /\ img.nread > img.maxBytes
       THEN img' = [img EXCEPT !.pc = "done", !.ret = "TooLarge"]
       ELSE \/ img' = [img EXCEPT !.pc = "done", !.ret = "ok",
                                  !.hasData = TRUE, !.dataLen = img.nread,
                                  !.b64Len = 4 * ((img.nread + 2) \div 3)]
            \/ img' = [img EXCEPT !.pc = "done", !.ret = "DecodeError"]
  /\ UNCHANGED <<goos, faulty, linkOK, fsVars, toolVars, storeVars, imgFile>>

\* another process appends to the file or truncates it.
EnvResize ==
  /\ imgFile.kind = "file"
  /\ \E n \in 0 .. MaxSize :
       /\ n # imgFile.size
       /\ imgFile' = [imgFile EXCEPT !.size = n]
  /\ UNCHANGED <<goos, faulty, linkOK, fsVars, toolVars, storeVars, img>>

NextImage == ImgLstat \/ ImgOpen \/ ImgRead \/ ImgFinish \/ EnvResize

\* one call of ReadImage on a path that names nothing, a file of any size,
\* a directory or a symbolic link.
InitImage ==
  /\ FsIdle
  /\ heap = <<>> /\ orig = ZeroTool /\ cloned = ZeroTool
  /\ held = NoHeld /\ nops = 0
  /\ StoreIdle
  /\ img = [pc |-> "idle", b64 |-> FALSE, maxBytes |-> 0, size |-> 0,
            nread |-> 0, ret |-> "none", hasData |-> FALSE, dataLen |-> 0,
            b64Len |-> 0]
  /\ \/ imgFile \in [kind : {"absent", "dir", "symlink"}, size : {0}]
     \/ imgFile \in [kind : {"file"}, size : 0 .. MaxSize]

ImageSpec == InitImage /\ [][NextImage]_vars

\* ------------------------------------------------------------ properties
Done(w) == pc[w] = "done"
AllDone == \A w \in Writers : Done(w)
\* w is the only call made so far.
Alone(w) == \A v \in Writers \ {w} : pc[v] = "idle"
\* w is the only call that got past NormalizePath so far.
Solo(w) == \A v \in Writers \ {w} : pc[v] = "idle" \/ ret[v] = "InvalidPath"
\* the call passed NormalizePath.
Valid(w) == pc[w] # "idle" /\ ret[w] # "InvalidPath"
Holds(data) == View(dst, ino) = [kind |-> "file", data |-> data]
CommitPcs == {"winRenameNX", "link", "openExcl", "rename", "winRename"}

\* C1: a call made alone that returns success leaves the destination holding
\* exactly its payload, and one that returns an error leaves the destination
\* as it was before the call, whatever filesystem call failed.
C1_AllOrNothing ==
  \A w \in Writers :
    (Done(w) /\ Alone(w)) =>
      IF ret[w] = "ok" THEN Holds(req[w].data)
      ELSE View(dst, ino) = hist[w].pre

\* C2 as stated: the content readable at the destination is always the
\* complete prior content or the complete payload of some call.
C2_NeverPartial ==
  dst.kind \in {"file", "symlink"} =>
    View(dst, ino).data \in
      {OldData} \cup {req[w].data : w \in {v \in Writers : Valid(v)}}

\* C2 as amended: the content readable at the destination is the complete
\* prior content, the complete payload of some call, or, in the file a call
\* created with O_EXCL on the copy fallback, a prefix of that call's payload.
C2_PartialOnlyOnFallback ==
  dst.kind \in {"file", "symlink"} =>
    \/ View(dst, ino).data \in
         {OldData} \cup {req[w].data : w \in {v \in Writers : Valid(v)}}
    \/ \E w \in Writers :
         /\ dst = FileAt(FbIno(w))
         /\ hist[w].atCommit = "absent"
         /\ IsPrefix(ino[dst.ino].data, req[w].data)

\* a payload is readable at the destination while another call is staging
\* its own, and a fallback copy is in progress in some state.
C2_Witness ==
  \E w, v \in Writers :
    /\ w # v
    /\ dst = FileAt(TmpIno(w))
    /\ Holds(req[w].data)
    /\ Len(req[w].data) > 0
    /\ pc[v] = "sync"
    /\ req[v].data # req[w].data

\* C3: a call with overwrite=false never changes a destination that exists
\* when its commit primitive runs, and then returns AlreadyExists.
C3_NoOverwriteNeverReplaces ==
  [][\A w \in Writers :
       ~req[w].overwrite =>
         /\ (pc[w] \in CommitPcs /\ pc'[w] # pc[w] /\ dst.kind # "absent")
              => (dst' = dst /\ ino'[dst.ino] = ino[dst.ino])
         /\ (pc'[w] = "done" /\ pc[w] # "done" /\ hist[w].atCommit = "exists")
              => ret'[w] = "AlreadyExists"]_vars

\* C4: of the calls with overwrite=false on a destination that was absent
\* before the first of them, with no filesystem failure, at most one succeeds,
\* the others return AlreadyExists, and the destination holds the payload of
\* the one that succeeded.
C4_OneWinner ==
  (/\ AllDone
   /\ ~faulty
   /\ hist[1].pre.kind = "absent"
   /\ \A w \in Writers : Valid(w) /\ ~req[w].overwrite
                         /\ ret[w] # "SymlinkInParent") =>
    /\ Cardinality({w \in Writers : ret[w] = "ok"}) <= 1
    /\ \A w \in Writers : ret[w] \in {"ok", "AlreadyExists"}
    /\ \A w \in Writers : ret[w] = "ok" => Holds(req[w].data)

\* C5: when calls with overwrite=true have all returned success, the
\* destination is a file holding exactly the payload of the call whose commit
\* came last; and with no filesystem failure every such call on a
\* destination that is absent, a file or a symlink succeeds.
C5_LastCommitWins ==
  (AllDone /\ \A w \in Writers : Valid(w) /\ req[w].overwrite) =>
    /\ (\A w \in Writers : ret[w] = "ok") =>
         /\ lastCommit \in Writers
         /\ dst = FileAt(TmpIno(lastCommit))
         /\ Holds(req[lastCommit].data)
    /\ (/\ ~faulty
        /\ hist[1].pre.kind \in {"absent", "file", "symlink"}
        /\ \A w \in Writers : ret[w] # "SymlinkInParent")
         => \A w \in Writers : ret[w] = "ok"

\* all calls overwrote with pairwise distinct payloads, and the first one to
\* commit is not the one whose payload stays.
C5_Witness ==
  /\ AllDone
  /\ \A w \in Writers : req[w].overwrite /\ ret[w] = "ok"
  /\ \A w, v \in Writers : w # v => req[w].data # req[v].data
  /\ lastCommit = 1
  /\ Holds(req[1].data)

\* C6: a call with overwrite=false made alone on an existing file changes
\* nothing, creates no staging file, and returns AlreadyExists (unless
\* os.Lstat itself fails).
C6_ExistsIsInert ==
  \A w \in Writers :
    (/\ Done(w) /\ Solo(w) /\ Valid(w)
     /\ ~req[w].overwrite
     /\ hist[w].pre.kind = "file"
     /\ ~parentLink) =>
      /\ View(dst, ino) = hist[w].pre
      /\ hist[w].tmpMade = 0
      /\ tmp[w] = FALSE
      /\ ret[w] \in {"AlreadyExists", "IOError"}
      /\ ~faulty => ret[w] = "AlreadyExists"

C6_Witness ==
  \E w \in Writers :
    /\ Done(w) /\ Solo(w)
    /\ ~req[w].overwrite
    /\ hist[w].pre = [kind |-> "file", data |-> OldData]
    /\ ret[w] = "AlreadyExists"
    /\ req[w].data # OldData

\* C7: a call with overwrite=false made alone on an absent destination, with
\* no filesystem failure, succeeds and the destination holds its payload.
C7_NewFileHoldsPayload ==
  \A w \in Writers :
    (/\ Done(w) /\ Solo(w) /\ Valid(w)
     /\ ~req[w].overwrite
     /\ hist[w].pre.kind = "absent"
     /\ ~parentLink
     /\ ~faulty) =>
      /\ ret[w] = "ok"
      /\ Holds(req[w].data)

\* reached through the copy fallback, with a payload of the greatest length.
C7_Witness ==
  \E w \in Writers :
    /\ Done(w) /\ Solo(w)
    /\ ~req[w].overwrite
    /\ hist[w].pre.kind = "absent"
    /\ ~faulty /\ ~linkOK
    /\ ret[w] = "ok"
    /\ Len(req[w].data) = MaxLen
    /\ dst = FileAt(FbIno(w))

\* C8: a call made while a component of the parent chain is a symlink returns
\* SymlinkInParent, having created no staging file and run no commit
\* primitive, with overwrite true and false.
C8_SymlinkParentRejected ==
  \A w \in Writers :
    (Done(w) /\ Valid(w) /\ hist[w].preLink) =>
      /\ ret[w] = "SymlinkInParent"
      /\ hist[w].tmpMade = 0
      /\ hist[w].atCommit = "none"
      /\ tmp[w] = FALSE

\* a call with a payload, made with overwrite=false while the parent chain
\* held a symlink, returned SymlinkInParent and left no staging file.
C8_Witness ==
  \E w \in Writers :
    /\ Done(w) /\ Solo(w)
    /\ hist[w].preLink
    /\ ~req[w].overwrite
    /\ ret[w] = "SymlinkInParent"
    /\ req[w].data # <<>>
    /\ hist[w].tmpMade = 0 /\ ~tmp[w]

\* C9: no staging file is created and no commit primitive runs while a
\* component of the parent chain is a symlink.
C9_NeverThroughSymlink ==
  [][\A w \in Writers :
       (\/ tmp'[w] /\ ~tmp[w]
        \/ pc[w] \in CommitPcs /\ pc'[w] # pc[w]) => ~parentLink]_vars

\* C10: a call on a directory, with overwrite true or false, leaves the
\* directory in place, creates no staging file, and returns IsDirectory
\* (unless os.Lstat itself fails).
C10_DirectoryRejected ==
  \A w \in Writers :
    (/\ Done(w) /\ Valid(w)
     /\ hist[w].pre.kind = "dir"
     /\ ~parentLink) =>
      /\ dst.kind = "dir"
      /\ hist[w].tmpMade = 0
      /\ tmp[w] = FALSE
      /\ ret[w] \in {"IsDirectory", "IOError"}
      /\ ~faulty => ret[w] = "IsDirectory"

\* a call with overwrite=false on a directory returned IsDirectory, not
\* AlreadyExists, and the directory is in place.
C10_Witness ==
  \E w \in Writers :
    /\ Done(w) /\ Solo(w)
    /\ hist[w].pre.kind = "dir"
    /\ ~req[w].overwrite
    /\ ret[w] = "IsDirectory"
    /\ dst.kind = "dir"
    /\ hist[w].tmpMade = 0 /\ ~tmp[w]

\* the positions of the validation, lines 187-213.
ValidatePcs == {"idle", "verify", "lstat"}

\* C11: the pre-check of an existing destination answers IsDirectory for a
\* directory, else NonRegular for what is neither a regular file nor a
\* symlink, else AlreadyExists when overwrite is false (or the error of
\* os.Lstat); and a call that returns from the validation has created no
\* staging file, run no commit primitive and changed nothing.
C11_ValidationOrder ==
  [][\A w \in Writers :
       /\ (pc[w] \in ValidatePcs /\ pc'[w] = "done") =>
            /\ ret'[w] \notin {"none", "ok"}
            /\ <<dst, tmp, ino>>' = <<dst, tmp, ino>>
            /\ hist'[w].tmpMade = 0
            /\ hist'[w].atCommit = "none"
       /\ (pc[w] = "lstat" /\ pc'[w] # "lstat" /\ dst.kind # "absent") =>
            /\ ~faulty => ret'[w] # "IOError"
            /\ \/ ret'[w] = "IOError"
               \/ dst.kind = "dir" /\ ret'[w] = "IsDirectory"
               \/ dst.kind = "other" /\ ret'[w] = "NonRegular"
               \/ /\ dst.kind \in {"file"} \cup LinkKinds
                  /\ ~req[w].overwrite
                  /\ ret'[w] = "AlreadyExists"
               \/ /\ dst.kind \in {"file"} \cup LinkKinds
                  /\ req[w].overwrite
                  /\ pc'[w] = "createTemp"]_vars

\* a call with overwrite=false on a device or socket returned NonRegular,
\* not AlreadyExists, with no staging file.
C11_Witness ==
  \E w \in Writers :
    /\ Done(w) /\ Solo(w)
    /\ dst.kind = "other"
    /\ ~req[w].overwrite /\ ret[w] = "NonRegular"
    /\ hist[w].tmpMade = 0
    /\ ~tmp[w]

\* a call with overwrite=true made alone on a POSIX platform returned nil.
PosixOverwriteOK(w) ==
  /\ Done(w) /\ Solo(w)
  /\ goos = "linux"
  /\ req[w].overwrite
  /\ ret[w] = "ok"

\* C12 as stated: after a successful call with overwrite=true on a POSIX
\* platform the destination holds exactly the payload and its permission
\* bits are exactly perm.
C12_ExactPerm ==
  \A w \in Writers :
    PosixOverwriteOK(w) =>
      /\ Holds(req[w].data)
      /\ ino[dst.ino].perm = req[w].perm

\* C12 as amended: the destination holds exactly the payload; its permission
\* bits are perm, or the mode of the staging file when both tmp.Chmod and
\* os.Chmod failed; they are perm when no filesystem call fails.
C12_PermUnlessChmodFails ==
  \A w \in Writers :
    PosixOverwriteOK(w) =>
      /\ Holds(req[w].data)
      /\ ino[dst.ino].perm \in {req[w].perm, TempPerm}
      /\ ~faulty => ino[dst.ino].perm = req[w].perm

\* an existing file of mode 0600 was overwritten with a non-empty payload and
\* mode 0640.
C12_Witness ==
  \E w \in Writers :
    /\ PosixOverwriteOK(w)
    /\ hist[w].pre = [kind |-> "file", data |-> OldData]
    /\ req[w].data # <<>>
    /\ req[w].perm # OldPerm
    /\ Holds(req[w].data)
    /\ ino[dst.ino].perm = req[w].perm

\* calls w and v are two successive calls with the same arguments and
\* overwrite=true, made one after the other with no other call running, and
\* both returned nil.
SameTwice(w, v) ==
  /\ v = w + 1
  /\ Done(w) /\ Done(v)
  /\ hist[w].seq /\ hist[v].seq
  /\ \A u \in Writers : u > v => pc[u] = "idle"
  /\ req[w] = req[v]
  /\ req[w].overwrite
  /\ ret[w] = "ok" /\ ret[v] = "ok"

\* C13 as stated: the destination after the second of two identical
\* overwriting calls has the content and (on POSIX) the permission bits it
\* had after the first, and no staging file is left. After the first call
\* the destination was the staged file of that call.
C13_Idempotent ==
  \A w, v \in Writers :
    SameTwice(w, v) =>
      /\ dst = FileAt(TmpIno(v))
      /\ ino[TmpIno(v)].data = ino[TmpIno(w)].data
      /\ goos = "linux" => ino[TmpIno(v)].perm = ino[TmpIno(w)].perm
      /\ ~tmp[w] /\ ~tmp[v]

\* C13 as amended: the content is the same and no staging file is left; the
\* permission bits are the same when no chmod fails or perm is the mode of a
\* staging file.
C13_IdempotentUnlessChmodFails ==
  \A w, v \in Writers :
    SameTwice(w, v) =>
      /\ dst = FileAt(TmpIno(v))
      /\ ino[TmpIno(v)].data = req[v].data
      /\ ino[TmpIno(w)].data = req[v].data
      /\ ~tmp[w] /\ ~tmp[v]
      /\ (goos = "linux" /\ (~faulty \/ req[v].perm = TempPerm)) =>
           /\ ino[TmpIno(v)].perm = req[v].perm
           /\ ino[TmpIno(w)].perm = req[v].perm

\* the same non-empty payload was written twice with mode 0640 over a file
\* that existed before.
C13_Witness ==
  \E w, v \in Writers :
    /\ SameTwice(w, v)
    /\ hist[w].pre = [kind |-> "file", data |-> OldData]
    /\ hist[v].pre = [kind |-> "file", data |-> req[w].data]
    /\ req[v].data # <<>>
    /\ req[v].perm # TempPerm
    /\ ino[TmpIno(v)] = ino[TmpIno(w)]

\* the call got past os.CreateTemp: it returned nil, or ShortWrite, or it
\* ran a commit primitive.
Staged(w) ==
  Done(w) /\ (ret[w] \in {"ok", "ShortWrite"} \/ hist[w].atCommit # "none")

\* C14 as stated: a call creates at most one staging file, exactly one when
\* it gets past the validation, and no staging file of a call that has
\* returned exists.
C14_StagingAlwaysRemoved ==
  \A w \in Writers :
    /\ hist[w].tmpMade <= 1
    /\ Staged(w) => hist[w].tmpMade = 1
    /\ Done(w) => ~tmp[w]

\* C14 as amended: as C14, but the staging file of a call that has returned
\* can remain when a removal failed: never when no filesystem call fails,
\* and never after a commit by rename (which moves it).
C14_StagingRemovedUnlessRemoveFails ==
  \A w \in Writers :
    /\ hist[w].tmpMade <= 1
    /\ tmp[w] => hist[w].tmpMade = 1
    /\ Staged(w) => hist[w].tmpMade = 1
    /\ (Done(w) /\ ~faulty) => ~tmp[w]
    /\ (Done(w) /\ ret[w] = "ok" /\ (req[w].overwrite \/ goos = "windows"))
         => ~tmp[w]

\* with no filesystem failure, one call committed and another, which lost
\* the race at the commit, failed after staging: both staging files are gone.
C14_Witness ==
  \E w, v \in Writers :
    /\ ~faulty
    /\ Done(w) /\ Done(v)
    /\ ret[w] = "ok"
    /\ ret[v] = "AlreadyExists" /\ hist[v].atCommit = "exists"
    /\ hist[w].tmpMade = 1 /\ hist[v].tmpMade = 1
    /\ ~tmp[w] /\ ~tmp[v]

\* the positions of the Windows overwrite loop, lines 308-318.
LoopPcs == {"winRename", "winLstat", "winRemove"}

\* a step of the Windows overwrite loop of call w: attempts are numbered
\* 0..MaxAttempts-1 and each new attempt follows a failed one; a rename
\* that succeeds leaves the loop; os.Remove(p) follows a failed rename and
\* an os.Lstat that found p, and nothing else in the loop removes p; the
\* loop is left with an error only after the last attempt.
LoopStep(w) ==
  /\ attempt'[w] \in 0 .. (MaxAttempts - 1)
  /\ (pc[w] = "winRename" /\ pc'[w] # "winRename") =>
       IF tmp'[w] THEN pc'[w] = "winLstat" /\ <<dst, ino>>' = <<dst, ino>>
       ELSE pc'[w] = "chmodDst" /\ dst' = FileAt(TmpIno(w))
  /\ (pc[w] \in {"winLstat", "winRemove"} /\ pc'[w] = "winRename") =>
       /\ attempt'[w] = attempt[w] + 1
       /\ tmp[w]
  /\ (pc[w] # "winRemove" /\ pc'[w] = "winRemove") =>
       pc[w] = "winLstat" /\ dst.kind # "absent"
  /\ (pc[w] \in LoopPcs /\ pc'[w] # pc[w] /\ dst' # dst /\ tmp'[w]) =>
       pc[w] = "winRemove" /\ dst' = Absent
  /\ (pc[w] \in LoopPcs /\ pc'[w] = "cleanup") =>
       /\ pc[w] \in {"winLstat", "winRemove"}
       /\ attempt[w] = MaxAttempts - 1
       /\ ret'[w] = "IOError"
       /\ tmp'[w]

\* call w returns from cleanup after the Windows overwrite loop failed.
LoopFailed(w) ==
  /\ pc[w] = "cleanup" /\ pc'[w] = "done"
  /\ goos = "windows" /\ req[w].overwrite
  /\ hist[w].atCommit # "none"

\* C15 as stated: the loop runs as LoopStep says, and when all attempts have
\* failed the call returns the rename error with the staging file removed.
C15_RetryLoopRemovesTmp ==
  [][\A w \in Writers :
       /\ LoopStep(w)
       /\ LoopFailed(w) => (ret'[w] = "IOError" /\ ~tmp'[w])]_vars

\* C15 as amended: the loop runs as LoopStep says, and when all attempts
\* have failed the call returns the rename error through cleanup, which
\* removes the staging file unless the removal fails.
C15_RetryLoop ==
  [][\A w \in Writers :
       /\ LoopStep(w)
       /\ LoopFailed(w) => ret'[w] = "IOError"
       /\ (pc'[w] = "done" /\ pc[w] # "done" /\ goos = "windows"
           /\ req[w].overwrite /\ hist[w].atCommit # "none") =>
            \/ pc[w] = "cleanup"
            \/ pc[w] = "syncDir" /\ ret'[w] = "ok" /\ ~tmp[w]]_vars

\* the last attempt is about to run on a destination that existed before the
\* call and that the loop has removed.
C15_Witness ==
  \E w \in Writers :
    /\ pc[w] = "winRename"
    /\ attempt[w] = MaxAttempts - 1
    /\ hist[w].pre.kind = "file"
    /\ dst.kind = "absent"
    /\ tmp[w]

\* the order of the statements of WriteFileAtomicBytes: a position of
\* greater rank is later in every path through lines 187-331, except inside
\* the Windows overwrite loop.
Rank(l) ==
  CASE l = "idle" -> 0
    [] l = "verify" -> 1
    [] l = "lstat" -> 2
    [] l = "createTemp" -> 3
    [] l = "chmodTmp" -> 4
    [] l = "write" -> 5
    [] l = "sync" -> 6
    [] l = "close" -> 7
    [] l \in {"winRenameNX", "link", "rename", "winRename"} -> 8
    [] l \in {"winLstatNX", "rmTmpL", "openExcl", "winLstat"} -> 9
    [] l \in {"openTmp", "winRemove"} -> 10
    [] l = "copy" -> 11
    [] l = "syncOut" -> 12
    [] l = "closeOut" -> 13
    [] l \in {"rmDst", "rmTmpF"} -> 14
    [] l = "chmodDst" -> 15
    [] l = "syncDir" -> 16
    [] l = "flushDir" -> 17
    [] l = "cleanup" -> 18
    [] l = "done" -> 19

\* the filesystem operations whose error is tested, outside the Windows
\* overwrite loop.
OncePcs == {"write", "sync", "close", "rename", "winRenameNX", "link",
            "openExcl", "openTmp", "copy", "syncOut", "closeOut"}

\* the statement that follows the operation at l when it succeeds.
SuccPc(w, l) ==
  CASE l = "write" -> "sync"
    [] l = "sync" -> "close"
    [] l = "close" -> CommitPc(w)
    [] l \in {"rename", "winRenameNX"} -> "chmodDst"
    [] l = "link" -> "rmTmpL"
    [] l = "openExcl" -> "openTmp"
    [] l = "openTmp" -> "copy"
    [] l = "copy" -> "syncOut"
    [] l = "syncOut" -> "closeOut"
    [] l = "closeOut" -> "rmTmpF"

\* a step of call w: outside the Windows loop it moves forward only, so no
\* operation is run twice; an operation of OncePcs that fails is followed by
\* the error return (its cleanup, or the os.Lstat that classifies the error),
\* and by nothing else but, if fallback, os.OpenFile after a failed os.Link.
OnceStep(w, fallback) ==
  /\ (pc'[w] # pc[w] /\ ~(pc[w] \in LoopPcs /\ pc'[w] \in LoopPcs)) =>
       Rank(pc'[w]) > Rank(pc[w])
  /\ (pc[w] = "copy" /\ pc'[w] = "copy"
      /\ ino'[FbIno(w)] # ino[FbIno(w)]) =>
       Len(ino'[FbIno(w)].data) = Len(ino[FbIno(w)].data) + 1
  /\ (pc[w] \in OncePcs /\ pc'[w] \notin {pc[w], SuccPc(w, pc[w])}) =>
       IF pc[w] = "link" /\ pc'[w] = "openExcl" THEN fallback
       ELSE /\ pc'[w] \in {"cleanup", "rmDst", "winLstatNX"}
            /\ pc'[w] # "winLstatNX" => ret'[w] \notin {"none", "ok"}
  /\ (pc[w] \in {"winLstatNX", "rmDst", "cleanup"} /\ pc'[w] # pc[w]) =>
       /\ pc'[w] \in {"cleanup", "done"}
       /\ ret'[w] \notin {"none", "ok"}

\* C16 as stated: outside the Windows overwrite loop no operation is run
\* twice in a call and the first failure of an operation ends the call with
\* an error.
C16_FirstFailureEnds ==
  [][\A w \in Writers : OnceStep(w, FALSE)]_vars

\* C16 as amended: as C16, except that a failed os.Link (for a reason other
\* than an existing destination) is followed by the exclusive-create
\* fallback, which is itself run once.
C16_OnlyLoopRetries ==
  [][\A w \in Writers : OnceStep(w, TRUE)]_vars

\* a call failed at its only POSIX rename and returned the error, the
\* destination being what it was.
C16_Witness ==
  \E w \in Writers :
    /\ goos = "linux"
    /\ Done(w) /\ Solo(w)
    /\ req[w].overwrite /\ ret[w] = "IOError" /\ hist[w].atCommit # "none"
    /\ Len(req[w].data) = MaxLen
    /\ View(dst, ino) = hist[w].pre

\* the phase of the statement at position l.
Phase(l) ==
  CASE l = "idle" -> "NotCalled"
    [] l \in ValidatePcs \ {"idle"} -> "Validating"
    [] l \in {"createTemp", "chmodTmp", "write", "sync", "close"} -> "Staging"
    [] l = "cleanup" -> "Failing"
    [] l = "done" -> "Returned"
    [] OTHER -> "Committing"

\* a step of call w in the order of the phases: Validating is entered by the
\* call, Staging from Validating, Committing from Staging; the call returns
\* nil from Committing only, and an error from any phase; a call that has
\* returned has one result for good.
PhaseStep(w) ==
  LET from == Phase(pc[w])
      to == Phase(pc'[w])
  IN /\ to # from =>
          \/ from = "NotCalled" /\ to = "Validating"
          \/ from = "Validating" /\ to = "Staging"
          \/ from = "Staging" /\ to = "Committing"
          \/ from = "Committing" /\ to = "Returned" /\ ret'[w] = "ok"
          \/ /\ from \in {"Staging", "Committing"} /\ to = "Failing"
             /\ ret'[w] \notin {"none", "ok"}
          \/ /\ from \in {"NotCalled", "Validating", "Staging", "Failing"}
             /\ to = "Returned"
             /\ ret'[w] \notin {"none", "ok"}
     /\ ret'[w] # ret[w] => ret[w] = "none"
     /\ from = "Returned" => (to = "Returned" /\ ret'[w] = ret[w])

\* C17: every step of every call follows the order of the phases, and every
\* call that was made returns.
C17_PhasesAndTermination ==
  /\ [][\A w \in Writers : PhaseStep(w)]_vars
  /\ \A w \in Writers : (pc[w] # "idle") ~> Done(w)

\* a call on the Windows overwrite path has returned nil through the retry
\* loop: a rename failed, the loop removed the destination, and a later
\* rename succeeded.
C17_Witness ==
  \E w \in Writers :
    /\ goos = "windows"
    /\ Done(w) /\ ret[w] = "ok"
    /\ req[w].overwrite
    /\ hist[w].pre.kind = "file"
    /\ hist[w].atCommit = "absent"
    /\ Holds(req[w].data)

\* C18: once CloneTool has returned, the clone holds what the original held
\* (equal field by field, nil for nil), the original still holds it, each
\* holds what was written or appended through itself and nothing else, and
\* no slice of the clone shares the array of a slice of the original.
C18_CloneIsDeep ==
  held.made =>
    \A f \in Fields :
      /\ Value(orig[f], heap) = held.orig[f]
      /\ Value(cloned[f], heap) = held.cloned[f]
      /\ (~orig[f].nil /\ ~cloned[f].nil) => cloned[f].arr # orig[f].arr

\* both slices of the original were empty with spare capacity; the clone was
\* appended to on both, then the original was appended to.
C18_Witness ==
  /\ held.made
  /\ nops = MaxOps
  /\ \A f \in Fields :
       /\ ~orig[f].nil /\ orig[f].len = 0 /\ orig[f].cap > 0
       /\ cloned[f].len = 1
  /\ \E f \in Fields :
       /\ heap[orig[f].arr][1] # 0
       /\ heap[orig[f].arr][1] # heap[cloned[f].arr][1]

\* the staging file of call w holds the whole payload, flushed.
StagedWhole(w) ==
  /\ ino[TmpIno(w)].data = req[w].data
  /\ ino[TmpIno(w)].synced

\* C19: a commit primitive runs only after tmp.Close has succeeded, on a
\* staging file that holds the whole payload, flushed; a call whose write,
\* flush or close failed, or whose write was short, runs none; hence a
\* destination that is a staged file (committed by rename or hard link)
\* holds a complete, flushed payload at every instant.
C19_CommitAfterFlush ==
  /\ [](\A w \in Writers :
          /\ (pc[w] \in CommitPcs \/ hist[w].atCommit # "none")
               => StagedWhole(w)
          /\ dst = FileAt(TmpIno(w)) => StagedWhole(w)
          /\ ret[w] = "ShortWrite" => hist[w].atCommit = "none")
  /\ [][\A w \in Writers :
          /\ (pc'[w] \in CommitPcs /\ pc[w] \notin CommitPcs \cup LoopPcs)
               => pc[w] = "close"
          /\ hist'[w].atCommit # hist[w].atCommit => pc[w] \in CommitPcs
          /\ (pc[w] \in {"write", "sync", "close"} /\ pc'[w] = "cleanup")
               => hist'[w].atCommit = "none"
          /\ pc[w] \in {"cleanup", "done"}
               => hist'[w].atCommit = hist[w].atCommit]_vars

\* the destination is the staged file of a call, complete and flushed, on
\* a filesystem whose calls may fail.
C19_Witness ==
  \E w \in Writers :
    /\ faulty /\ Solo(w)
    /\ dst = FileAt(TmpIno(w))
    /\ StagedWhole(w)
    /\ Len(req[w].data) = MaxLen
    /\ hist[w].atCommit # "none"

\* call w has returned after its staging failed: it created its staging
\* file and ran no commit primitive.
StagingFailed(w) ==
  Done(w) /\ hist[w].tmpMade = 1 /\ hist[w].atCommit = "none"

\* C20 as stated: a call whose staging failed returns the error (ShortWrite
\* or the I/O error), its staging file is removed, and the destination of a
\* call made alone is as it was before the call.
C20_StagingFailureInert ==
  \A w \in Writers :
    StagingFailed(w) =>
      /\ ret[w] \in {"ShortWrite", "IOError"}
      /\ ~tmp[w]
      /\ Solo(w) => View(dst, ino) = hist[w].pre

\* C20 as amended: a call whose staging failed returns the error through
\* cleanup, which removes the staging file unless the removal fails, and the
\* destination of a call made alone is as it was before the call.
C20_StagingFailureLeavesDst ==
  /\ [](\A w \in Writers :
          StagingFailed(w) =>
            /\ ret[w] \in {"ShortWrite", "IOError"}
            /\ Solo(w) => View(dst, ino) = hist[w].pre)
  /\ [][\A w \in Writers :
          /\ (pc[w] \in {"write", "sync", "close"}
              /\ pc'[w] \notin {pc[w], SuccPc(w, pc[w])}) =>
               /\ pc'[w] = "cleanup"
               /\ ret'[w] \in {"ShortWrite", "IOError"}
               /\ <<dst, tmp>>' = <<dst, tmp>>
          /\ (pc[w] = "cleanup" /\ pc'[w] = "done") =>
               /\ ret'[w] = ret[w]
               /\ dst' = dst
               /\ ~tmp'[w] \/ (faulty /\ tmp'[w] = tmp[w])]_vars

\* a short write on an overwriting call made alone on an existing file: the
\* call returned ShortWrite, the file is as it was, the staging file is gone.
C20_Witness ==
  \E w \in Writers :
    /\ StagingFailed(w) /\ Solo(w)
    /\ req[w].overwrite
    /\ ret[w] = "ShortWrite"
    /\ hist[w].pre = [kind |-> "file", data |-> OldData]
    /\ View(dst, ino) = hist[w].pre
    /\ ~tmp[w]

\* call w is on the POSIX overwrite path.
PosixOverwrite(w) == goos = "linux" /\ req[w].overwrite /\ pc[w] # "idle"

\* the steps of call w on the POSIX overwrite path: the destination changes
\* in the rename step only, which in one step makes it the staged file with
\* the whole payload and removes the staging name, or fails and changes
\* nothing and goes to the cleanup with the error; tmpGone: the staging
\* file is removed when the call returns after a failed rename.
PosixRenameStep(w, tmpGone) ==
  /\ (pc[w] # "rename" /\ pc'[w] # pc[w]) => dst' = dst
  /\ (pc[w] = "rename" /\ pc'[w] # pc[w]) =>
       IF pc'[w] = "chmodDst"
         THEN /\ dst' = FileAt(TmpIno(w))
              /\ ino'[TmpIno(w)].data = req[w].data
              /\ ~tmp'[w]
         ELSE /\ pc'[w] = "cleanup"
              /\ ret'[w] \notin {"none", "ok"}
              /\ <<dst, ino, tmp>>' = <<dst, ino, tmp>>
  /\ (pc[w] = "cleanup" /\ pc'[w] = "done" /\ hist[w].atCommit # "none") =>
       /\ ret'[w] = ret[w]
       /\ tmpGone => ~tmp'[w]
       /\ ~tmp'[w] \/ (faulty /\ tmp'[w] = tmp[w])

\* what a reader sees at a destination that existed before call w, made
\* alone on the POSIX overwrite path: the old content or the whole payload.
OldOrNew(w) ==
  (PosixOverwrite(w) /\ Solo(w) /\ hist[w].pre.kind \in {"file", "symlink"})
    => View(dst, ino) \in {hist[w].pre, [kind |-> "file", data |-> req[w].data]}

\* C21 as stated: on the POSIX overwrite path the commit is one rename step;
\* an existing destination holds at every instant of the call its old
\* content or the whole payload, and when the rename fails the destination is
\* unchanged and the staging file is removed.
C21_RenameAtomicTmpRemoved ==
  /\ [](\A w \in Writers : OldOrNew(w))
  /\ [][\A w \in Writers : PosixOverwrite(w) => PosixRenameStep(w, TRUE)]_vars

\* C21 as amended: as C21, but after a failed rename the staging file is
\* removed by the cleanup unless that removal fails too.
C21_RenameAtomic ==
  /\ [](\A w \in Writers : OldOrNew(w))
  /\ [][\A w \in Writers : PosixOverwrite(w) => PosixRenameStep(w, FALSE)]_vars

\* the rename of a call made alone has just replaced an existing file by the
\* staged file, which holds a payload of the greatest length.
C21_Witness ==
  \E w \in Writers :
    /\ PosixOverwrite(w) /\ Solo(w)
    /\ pc[w] = "chmodDst"
    /\ hist[w].pre = [kind |-> "file", data |-> OldData]
    /\ dst = FileAt(TmpIno(w))
    /\ Len(req[w].data) = MaxLen
    /\ Holds(req[w].data)

\* call w is on the POSIX no-overwrite path.
PosixNoOverwrite(w) == goos = "linux" /\ ~req[w].overwrite /\ pc[w] # "idle"

\* the positions of the copy into the file created with O_EXCL.
CopyPcs == {"openTmp", "copy", "syncOut", "closeOut"}

\* the steps of the exclusive-create copy fallback of call w: a failed
\* os.Link that did not find the destination changes nothing and is followed
\* by os.OpenFile(O_EXCL); that fails with AlreadyExists on an existing
\* destination, which it leaves as it is, and else creates an empty
\* destination or fails; the copy, the flush and the close go on in order,
\* the close succeeds on a file that holds the whole payload, flushed, and
\* the call then returns nil; a step that fails is followed by os.Remove(p)
\* and the error return; removed: that os.Remove(p) leaves no destination.
FallbackStep(w, removed) ==
  /\ (pc[w] = "link" /\ pc'[w] = "openExcl") =>
       <<dst, ino, tmp>>' = <<dst, ino, tmp>>
  /\ (pc[w] = "openExcl" /\ pc'[w] # pc[w]) =>
       IF dst.kind # "absent"
         THEN /\ pc'[w] = "cleanup" /\ ret'[w] = "AlreadyExists"
              /\ <<dst, ino>>' = <<dst, ino>>
         ELSE \/ /\ pc'[w] = "openTmp"
                 /\ dst' = FileAt(FbIno(w))
                 /\ ino'[FbIno(w)].data = <<>>
              \/ /\ pc'[w] = "cleanup" /\ ret'[w] = "IOError"
                 /\ <<dst, ino>>' = <<dst, ino>>
  /\ (pc[w] \in CopyPcs /\ pc'[w] \notin {pc[w], SuccPc(w, pc[w])}) =>
       /\ pc'[w] = "rmDst" /\ ret'[w] = "IOError"
       /\ <<dst, ino>>' = <<dst, ino>>
  /\ (pc[w] = "closeOut" /\ pc'[w] = "rmTmpF") =>
       /\ ino[FbIno(w)].data = req[w].data
       /\ ino[FbIno(w)].synced
  /\ (pc[w] = "rmTmpF" /\ pc'[w] # pc[w]) =>
       pc'[w] = "syncDir" /\ <<dst, ino>>' = <<dst, ino>>
  /\ (pc[w] = "rmDst" /\ pc'[w] # pc[w]) =>
       /\ pc'[w] = "cleanup" /\ ret'[w] = ret[w]
       /\ removed => dst' = Absent
       /\ dst' = Absent \/ (faulty /\ dst' = dst)

\* call w, made alone, has returned nil through the copy fallback.
FallbackOK(w) ==
  /\ Done(w) /\ Solo(w) /\ PosixNoOverwrite(w)
  /\ ret[w] = "ok"
  /\ dst = FileAt(FbIno(w))

WinNoOverwrite(w) == goos = "windows" /\ ~req[w].overwrite /\ pc[w] # "idle"

\* the steps of call w on the Windows no-overwrite path: one os.Rename, which
\* commits, or fails and changes nothing; then os.Lstat(p) classifies the
\* failure, AlreadyExists or the error of the rename, and changes nothing;
\* then the cleanup returns that error and leaves the destination alone.
\* exact: os.Lstat answers for every destination that is present, and the
\* cleanup removes the staging file.
WinNXStep(w, exact) ==
  /\ (pc[w] = "winRenameNX" /\ pc'[w] # pc[w]) =>
       IF pc'[w] = "chmodDst"
         THEN dst' = FileAt(TmpIno(w)) /\ ~tmp'[w]
         ELSE /\ pc'[w] = "winLstatNX" /\ ret'[w] = ret[w]
              /\ <<dst, ino, tmp>>' = <<dst, ino, tmp>>
  /\ (pc[w] = "winLstatNX" /\ pc'[w] # pc[w]) =>
       /\ pc'[w] = "cleanup"
       /\ <<dst, ino, tmp>>' = <<dst, ino, tmp>>
       /\ IF dst.kind = "absent" THEN ret'[w] = "IOError"
          ELSE /\ ret'[w] \in {"AlreadyExists", "IOError"}
               /\ exact => ret'[w] = "AlreadyExists"
  /\ (pc[w] = "cleanup" /\ pc'[w] = "done" /\ hist[w].atCommit # "none") =>
       /\ ret'[w] = ret[w]
       /\ <<dst, ino>>' = <<dst, ino>>
       /\ exact => ~tmp'[w]
       /\ ~tmp'[w] \/ (faulty /\ tmp'[w] = tmp[w])

\* C23 as stated: on the Windows no-overwrite path a failed rename is
\* reported as AlreadyExists when the destination is present and as the
\* rename error otherwise, the staging file is removed, and the destination
\* is not modified.
C23_WinNXClassifiedByPresence ==
  [][\A w \in Writers : WinNoOverwrite(w) => WinNXStep(w, TRUE)]_vars

\* C23 as amended: a failed rename is reported as AlreadyExists when
\* os.Lstat(p) succeeds and as the rename error otherwise (the destination
\* absent, or os.Lstat failing on a destination that is present); the cleanup
\* removes the staging file unless the removal fails; the destination is not
\* modified.
C23_WinNXClassifiedByLstat ==
  [][\A w \in Writers : WinNoOverwrite(w) => WinNXStep(w, FALSE)]_vars

\* a call that found no destination at its pre-check lost the race to
\* another call: its rename failed on the destination the other call made,
\* it returned AlreadyExists, its staging file is gone and the destination
\* holds the other call's payload.
C23_Witness ==
  \E w, v \in Writers :
    /\ w # v
    /\ Done(w) /\ WinNoOverwrite(w)
    /\ hist[w].pre.kind = "absent"
    /\ hist[w].atCommit = "exists"
    /\ ret[w] = "AlreadyExists"
    /\ ~tmp[w]
    /\ ret[v] = "ok"
    /\ req[v].data # req[w].data
    /\ Holds(req[v].data)


\* C24: after a successful call on POSIX in which no filesystem call failed
\* (so every attempt to set the permission bits succeeded), whatever the
\* commit path, the destination is a file whose permission bits are the
\* requested ones.
C24_PermOnEveryPath ==
  \A w \in Writers :
    (Done(w) /\ Solo(w) /\ goos = "linux" /\ ret[w] = "ok" /\ ~faulty) =>
      /\ dst.kind = "file"
      /\ ino[dst.ino].perm = req[w].perm

\* the positions after a successful commit: the best-effort removal of the
\* staging name, the best-effort chmod, and the flush of the directory.
FinalizePcs == {"rmTmpL", "rmTmpF", "chmodDst", "syncDir", "flushDir"}

\* a step of call w about the finalize: it is entered by a commit primitive
\* that succeeded (a rename or a link that made the destination the staged
\* file, or the close of the whole copy); its steps go forward to the return
\* of nil and to nothing else, and change neither the entry nor the content
\* of the destination; nil is returned from there only; the flush of the
\* directory is reached from syncDirBestEffort only, and never on Windows.
FinalizeStep(w) ==
  /\ (pc'[w] \in FinalizePcs /\ pc[w] \notin FinalizePcs) =>
       \/ /\ pc[w] \in {"rename", "winRename", "winRenameNX", "link"}
          /\ dst' = FileAt(TmpIno(w))
       \/ /\ pc[w] = "closeOut"
          /\ ino[FbIno(w)].data = req[w].data
  /\ (pc[w] \in FinalizePcs /\ pc'[w] # pc[w]) =>
       /\ pc'[w] \in FinalizePcs \cup {"done"}
       /\ Rank(pc'[w]) > Rank(pc[w])
       /\ ret'[w] = IF pc'[w] = "done" THEN "ok" ELSE "none"
       /\ dst' = dst
       /\ \A i \in InoIds : ino'[i].data = ino[i].data
  /\ (pc'[w] = "done" /\ pc[w] # "done" /\ ret'[w] = "ok") =>
       pc[w] = IF goos = "windows" THEN "syncDir" ELSE "flushDir"
  /\ (pc'[w] = "flushDir" /\ pc[w] # "flushDir") =>
       pc[w] = "syncDir" /\ goos # "windows"

\* C25: the finalize runs as FinalizeStep says, the directory flush is never
\* attempted on Windows nor before a commit, and a call whose commit
\* primitive has succeeded returns nil, whether the chmod and the flush
\* fail or not.
C25_FinalizeNeverFails ==
  /\ [][\A w \in Writers : FinalizeStep(w)]_vars
  /\ [](\A w \in Writers :
          pc[w] = "flushDir" => (goos # "windows" /\ hist[w].atCommit # "none"))
  /\ \A w \in Writers :
       (pc[w] \in FinalizePcs) ~> (Done(w) /\ ret[w] = "ok")

\* a call returned nil on POSIX although both chmod calls had failed: the
\* destination is the staged file, with the mode os.CreateTemp gave it.
C25_Witness ==
  \E w \in Writers :
    /\ Done(w) /\ ret[w] = "ok"
    /\ goos = "linux" /\ faulty
    /\ dst = FileAt(TmpIno(w))
    /\ Holds(req[w].data)
    /\ req[w].perm # TempPerm
    /\ ino[dst.ino].perm = TempPerm

\* the staging file of call v is named by its staging name only: it has not
\* been committed to the destination.
Uncommitted(v) == tmp[v] /\ dst # FileAt(TmpIno(v))

\* a step seen from the staging file of call v: the staging name appears by
\* os.CreateTemp of v, once, as a new empty file that is not the file at the
\* destination; the name and the content change in steps of v only, and so
\* does the mode while the file is uncommitted.
StagingOwned(v) ==
  /\ (tmp'[v] /\ ~tmp[v]) =>
       /\ pc[v] = "createTemp"
       /\ hist[v].tmpMade = 0
       /\ ino'[TmpIno(v)].data = <<>>
       /\ dst # FileAt(TmpIno(v))
  /\ (\/ tmp'[v] # tmp[v]
      \/ ino'[TmpIno(v)].data # ino[TmpIno(v)].data
      \/ Uncommitted(v) /\ ino'[TmpIno(v)] # ino[TmpIno(v)]) =>
       pc'[v] # pc[v]

C27_CommittedContentStays ==
  \A v \in Writers :
    (/\ AllDone
     /\ ret[v] = "ok"
     /\ \A w \in Writers \ {v} : ret[w] # "ok") => Holds(req[v].data)

\* C28: when concurrent calls with overwrite=true have all returned nil on
\* POSIX, with no filesystem failure, the destination is the file of the call
\* that committed last and its permission bits are those that call asked for.
C28_PermFollowsContent ==
  (/\ AllDone
   /\ goos = "linux"
   /\ ~faulty
   /\ \A w \in Writers : Valid(w) /\ req[w].overwrite /\ ret[w] = "ok") =>
    /\ lastCommit \in Writers
    /\ dst = FileAt(TmpIno(lastCommit))
    /\ ino[dst.ino].perm = req[lastCommit].perm

\* call w is the only call, made on a destination that is a symbolic link,
\* to the file T (inode OldIno) or dangling.
OnLink(w) == Valid(w) /\ Solo(w) /\ hist[w].pre.kind \in LinkKinds

\* C29: a call on a symbolic link never changes the target T; with
\* overwrite=true a successful call leaves at the destination a regular file
\* of its own holding the payload (and the call succeeds when no filesystem
\* call fails); with overwrite=false the call returns AlreadyExists (or the
\* error of os.Lstat), for a dangling link too, and the link stays, with no
\* staging file made.
C29_LinkReplacedNotFollowed ==
  \A w \in Writers :
    OnLink(w) =>
      /\ ino[OldIno] = [data |-> OldData, perm |-> OldPerm, synced |-> TRUE]
      /\ (Done(w) /\ req[w].overwrite /\ ret[w] = "ok") =>
           /\ dst = FileAt(TmpIno(w))
           /\ Holds(req[w].data)
      /\ (Done(w) /\ req[w].overwrite /\ ~faulty) =>
           ret[w] \in {"ok", "SymlinkInParent"}
      /\ (Done(w) /\ ~req[w].overwrite /\ ret[w] # "SymlinkInParent") =>
           /\ ret[w] \in {"AlreadyExists", "IOError"}
           /\ ~faulty => ret[w] = "AlreadyExists"
           /\ dst = [kind |-> hist[w].pre.kind, ino |-> OldIno]
           /\ hist[w].tmpMade = 0

\* an overwriting call on POSIX replaced a link to T by a regular file with a
\* payload of the greatest length, and T holds what it held.
C29_Witness ==
  \E w \in Writers :
    /\ OnLink(w) /\ Done(w)
    /\ goos = "linux"
    /\ hist[w].pre = [kind |-> "symlink", data |-> OldData]
    /\ req[w].overwrite /\ ret[w] = "ok"
    /\ Len(req[w].data) = MaxLen
    /\ dst = FileAt(TmpIno(w))
    /\ ino[OldIno].data = OldData

\* get(id) of goroutine p has returned (s, true).
GetFound(p) ==
  spc[p] = "idle" /\ sop[p].op = "get" /\ sop[p].out = "s"

\* a step of the store seen from the closed flags and from get of p: a flag
\* that is set stays set; the value get tests is the flag of the session it
\* looked up, read under that session's lock; get looks up under the store
\* lock and returns (s, true) only right after it read the flag as false.
ClosedStep(p) ==
  /\ \A i \in Ids : sess[i].closed => sess'[i].closed
  /\ (spc[p] = "getRead" /\ spc'[p] # "getRead") =>
       /\ sop'[p].closed = sess[sop[p].s].closed
       /\ p \in sMu[sop[p].s].r
  /\ (spc[p] = "getLookup" /\ spc'[p] # "getLookup") =>
       /\ p \in ssMu.r
       /\ sop'[p].s = IF sop[p].id \in Ids THEN m[sop[p].id] ELSE 0
  /\ (sop'[p].out = "s" /\ sop[p].out # "s" /\ sop[p].op = "get") =>
       spc[p] = "getSRUnlock" /\ ~sop[p].closed

\* C30: the closed flag of a session is monotonic; a get(id) called after a
\* delete(id) has returned returns not-found; and get(id) returns a session
\* only if newSession registered that session under id and its closed flag
\* was false when get read it.
C30_ClosedMonotonicGetSound ==
  /\ [][\A p \in Procs : ClosedStep(p)]_vars
  /\ [](\A p \in Procs :
          /\ (spc[p] = "idle" /\ sop[p].op = "get" /\ sop[p].late)
               => sop[p].out = "nil"
          /\ GetFound(p) =>
               /\ sop[p].s \in 1 .. nextId
               /\ sess[sop[p].s].id = sop[p].id
               /\ ~sop[p].closed
               /\ ~sop[p].late)

\* one goroutine got (nil, false) for the id of a session whose delete had
\* returned before the call, and another got a session that is still open.
C30_Witness ==
  \E p, q \in Procs :
    /\ spc[p] = "idle" /\ sop[p].op = "get" /\ sop[p].late
    /\ sop[p].id \in Ids /\ sess[sop[p].id].closed
    /\ sop[p].out = "nil"
    /\ GetFound(q)
    /\ sop[q].id # sop[p].id
    /\ ~sess[sop[q].s].closed

\* a step of the store seen from reset(s) of goroutine p: the call changes
\* nothing of the store, and reset(nil) has returned with it; taking and
\* releasing the session's lock change no session and no map entry; the body
\* runs under the session's write lock and leaves every session as it is
\* when s is closed, and else empties workdir and env of s and nothing more.
ResetStep(p) ==
  /\ (spc[p] = "idle" /\ sop'[p].op = "reset" /\ sop'[p] # sop[p]) =>
       /\ UNCHANGED <<m, sess, nextId, ssMu, sMu>>
       /\ sop'[p].s = 0 => spc'[p] = "idle"
  /\ (spc[p] \in {"rsLock", "rsUnlock"} /\ spc'[p] # spc[p]) =>
       UNCHANGED <<m, sess, nextId>>
  /\ (spc[p] = "rsBody" /\ spc'[p] # "rsBody") =>
       LET s == sop[p].s IN
         /\ sMu[s].w = p
         /\ UNCHANGED <<m, nextId>>
         /\ sess' = IF sess[s].closed THEN sess
                    ELSE [sess EXCEPT ![s] = [id |-> sess[s].id,
                                              workdir |-> "", env |-> {},
                                              closed |-> FALSE]]

\* C31: reset on a session that is not closed empties its workdir and its env
\* and changes nothing else (id, closed flag and the map stay); reset on a
\* closed session or on nil changes nothing, also when it races with a delete
\* of the same session: the body of reset and the assignment of delete run
\* under the session's write lock, so reset sees the session either before
\* delete closed it or closed.
C31_ResetFrame ==
  /\ [][\A p \in Procs : ResetStep(p)]_vars
  /\ [](\A p \in Procs :
          /\ spc[p] \in {"rsBody", "rsUnlock", "delClose", "delSUnlock"}
               => sMu[sop[p].s].w = p
          /\ spc[p] = "rsUnlock" => sop[p].closed = sess[sop[p].s].closed)

\* a reset called while a delete of its session was under way found the
\* session closed and left its workdir and env, both non-empty, as they were.
C31_Witness ==
  \E p \in Procs :
    /\ spc[p] = "rsUnlock" /\ sop[p].late /\ sop[p].closed
    /\ sess[sop[p].s].closed
    /\ sess[sop[p].s].workdir = "/w"
    /\ sess[sop[p].s].env = {"K"}

\* goroutine p holds the store's lock, or the lock of a session.
HoldsStore(p) == ssMu.w = p \/ p \in ssMu.r
HoldsSess(p) == \E i \in Ids : sMu[i].w = p \/ p \in sMu[i].r

\* C32: no operation of the store holds the store's lock and a session's
\* lock at the same time; while an operation is under way the next step of
\* some operation under way can be taken (no deadlock); and every
\* newSession, get, delete and reset that is called returns.
C32_NoNestingNoDeadlock ==
  /\ [](\A p \in Procs : ~(HoldsStore(p) /\ HoldsSess(p)))
  /\ []((\E p \in Procs : spc[p] # "idle") =>
          \E p \in Procs :
            spc[p] # "idle" /\ ENABLED (Acquire(p) \/ Proceed(p)))
  /\ \A p \in Procs : (spc[p] # "idle") ~> (spc[p] = "idle")

\* a reset waits for the lock of the session a delete is closing, after the
\* delete has released the store's lock.
C32_Witness ==
  \E p, q \in Procs :
    /\ spc[p] = "delClose" /\ spc[q] = "rsLock"
    /\ sop[q].s = sop[p].s
    /\ sMu[sop[p].s].w = p
    /\ ~HoldsStore(p)
    /\ ~ENABLED Acquire(q)

\* C33: ReadImage with includeBase64Data and maxBytes > 0 never returns
\* data of more than maxBytes bytes; when the size seen at stat time exceeds
\* maxBytes it returns ErrFileExceedsMaxSize and no ImageData, without
\* reading the file; when more than maxBytes bytes were read it returns
\* ErrFileExceedsMaxSize and no ImageData; and it never reads more than
\* maxBytes+1 bytes from the file.
C33_ReadBounded ==
  (img.b64 /\ img.maxBytes > 0) =>
    /\ img.nread <= img.maxBytes + 1
    /\ img.hasData =>
         /\ img.ret = "ok"
         /\ img.dataLen = img.nread
         /\ img.dataLen <= img.maxBytes
         /\ img.b64Len <= 4 * ((img.maxBytes + 2) \div 3)
    /\ (img.pc = "done" /\ img.size > img.maxBytes) =>
         img.ret = "TooLarge" /\ ~img.hasData /\ img.nread = 0
    /\ (img.pc = "done" /\ img.nread > img.maxBytes) =>
         img.ret = "TooLarge" /\ ~img.hasData

\* the file had at most maxBytes bytes at stat time and grew by more than
\* two bytes past maxBytes: maxBytes+1 bytes were read and the call returned
\* ErrFileExceedsMaxSize.
C33_Witness ==
  /\ img.pc = "done" /\ img.b64 /\ img.maxBytes = MaxLimit
  /\ img.size <= img.maxBytes
  /\ imgFile.size > img.maxBytes + 1
  /\ img.nread = img.maxBytes + 1
  /\ img.ret = "TooLarge" /\ ~img.hasData

====
